---------------------------- MODULE Spec2Model ----------------------------
(***************************************************************************)
(* bevy_text_editor (src/src/lib.rs): the click-gesture history, the       *)
(* pointer and keyboard input systems, the editor session that binds a     *)
(* persistent EditorState to a cosmic-text buffer, and the reconciliation  *)
(* of the buffer's styled spans into the Text sections.                    *)
(*                                                                         *)
(* Conventions.  Line numbers and byte offsets are 0-based as in the Rust  *)
(* code; TLA+ sequences are 1-based, so line l of a buffer is buf[l + 1].  *)
(* Option<T> is a sequence of length 0 (None) or 1 (Some).  Pixel          *)
(* coordinates are integers, time is in milliseconds.  An Instant is an    *)
(* opaque reading of a monotonic (non-decreasing) clock: two readings may  *)
(* be equal.  debug_assert! is compiled out of a release build, so the     *)
(* program goes on after a failed one; assert_failed records the failure.  *)
(* A buffer changes through the editor sessions of the two input systems   *)
(* and through the text layout of the frame, which builds it again from    *)
(* the Text sections once the keyboard system has written them.  A       *)
(* CosmicBuffer is spawned without lines and without a size; the first     *)
(* layout gives it both.  A panic of a system ends the program: no step    *)
(* follows it, and what the system has written before it stays written.    *)
(***************************************************************************)
EXTENDS Integers, Sequences, FiniteSets, TLC

VARIABLES
    history,        \* Local<ClickHistory>.history: front (most recent) first
    now,            \* the last reading of Instant::now()
    buf,            \* CosmicBuffer of every entity: a sequence of lines
    size,           \* Buffer::size() of every entity: (width, height)
    text,           \* Text.sections of every editable entity: their values
    es,             \* EditorState of every editable entity
    scratch,        \* Local scratch_spans_for_update: section index -> text
    assert_failed,  \* a debug_assert! of ClickHistory::clicked was false
    call,           \* the last system call: how it ended and what it did
    events,         \* steps taken so far: input events and layouts
    frame,          \* the schedule of the frame and the session in progress
    geometry        \* a layout run, what is asked of it, and the answer

vars == <<history, now, buf, size, text, es, scratch, assert_failed, call,
          events, frame, geometry>>

-----------------------------------------------------------------------------
(* Program constants                                                       *)

MAX_ENTRIES == 4
MAX_DISTANCE == 2
MAX_INTERVAL == 500

(* Bounds of the model                                                     *)

MaxEvents == 3      \* steps (input events, layouts) of one behaviour
MaxLineLen == 4     \* bytes of a line whose spans are drawn freely
MaxGlyphs == 2      \* glyphs of a layout run whose geometry is asked for
MaxIndex == 4       \* byte offset of a cursor asked about such a run
MaxClicks == 4      \* calls of handle_click in a behaviour of clicks alone

-----------------------------------------------------------------------------
(* Option, Vec2, Cursor, Selection                                         *)

None == <<>>
Some(x) == <<x>>
IsSome(o) == Len(o) = 1
Unwrap(o) == o[1]

\* what a call that panics gives in place of its result: no Option
Panic(message) == <<"panic", message>>
IsPanic(r) == Len(r) = 2

Min(a, b) == IF a <= b THEN a ELSE b
Max(a, b) == IF a >= b THEN a ELSE b

Vec2(x, y) == [x |-> x, y |-> y]

\* mutation of DistanceGreater: the threshold itself counts as too far
DistanceAtLeast(a, b, d) ==
    (a.x - b.x) * (a.x - b.x) + (a.y - b.y) * (a.y - b.y) >= d * d

\* Vec2::distance(a, b) > d, for integer coordinates and d >= 0
DistanceGreater(a, b, d) ==
    (a.x - b.x) * (a.x - b.x) + (a.y - b.y) * (a.y - b.y) > d * d

Cursor(l, i) == [line |-> l, index |-> i]

\* the derived Ord of cosmic_text::Cursor on (line, index)
CursorLess(a, b) == a.line < b.line \/ (a.line = b.line /\ a.index < b.index)

SelectionNone == [kind |-> "None", at |-> Cursor(0, 0)]
SelectionWord(c) == [kind |-> "Word", at |-> c]
SelectionLine(c) == [kind |-> "Line", at |-> c]


-----------------------------------------------------------------------------
(* ClickHistory (lib.rs 151-210)                                           *)

ClickHistoryEntry(position, time) == [position |-> position, time |-> time]

ClickHistory_new == <<>>

\* mutation of pop_back_to_room: no room is made in a history just full
RECURSIVE pop_back_above_room(_)
pop_back_above_room(h) ==
    IF Len(h) > MAX_ENTRIES
    THEN pop_back_above_room(SubSeq(h, 1, Len(h) - 1))
    ELSE h

\* while self.history.len() >= MAX_ENTRIES { self.history.pop_back(); }
RECURSIVE pop_back_to_room(_)
pop_back_to_room(h) ==
    IF Len(h) >= MAX_ENTRIES
    THEN pop_back_to_room(SubSeq(h, 1, Len(h) - 1))
    ELSE h

\* ClickHistory::add_entry, with t the value Instant::now() returns
add_entry(h, position, t) ==
    <<ClickHistoryEntry(position, t)>> \o pop_back_to_room(h)

\* An Instant is only ever compared with, or subtracted from, another entry's
\* (lib.rs 199, 203), so the state keeps the times of the entries as
\* milliseconds since the oldest entry still held
since_oldest(h) ==
    IF h = <<>> THEN h
    ELSE [i \in 1..Len(h) |->
             ClickHistoryEntry(h[i].position, h[i].time - h[Len(h)].time)]

\* the last reading of the clock on that scale
last_reading(h, t) == IF h = <<>> THEN t ELSE since_oldest(h)[1].time

\* the loop of ClickHistory::clicked over self.history.iter().take(times):
\* i is the entry iter.next() yields, i + 1 the one iter.peek() shows
RECURSIVE clicked_loop(_, _, _)
clicked_loop(h, n, i) ==
    IF i > n THEN TRUE
    ELSE IF i + 1 > n THEN clicked_loop(h, n, i + 1)
    ELSE IF DistanceGreater(h[i].position, h[i + 1].position, MAX_DISTANCE)
         THEN FALSE
    ELSE IF h[i].time - h[i + 1].time > MAX_INTERVAL THEN FALSE
    ELSE clicked_loop(h, n, i + 1)

\* mutation of clicked: a history of exactly `times` entries is too short
clicked_short(h, times) ==
    IF Len(h) <= times THEN FALSE
    ELSE clicked_loop(h, Min(times, Len(h)), 1)

\* ClickHistory::clicked (the value a release build returns)
clicked(h, times) ==
    IF Len(h) < times THEN FALSE
    ELSE clicked_loop(h, Min(times, Len(h)), 1)

\* debug_assert!(a.time > b.time) is false for a pair the loop examines
RECURSIVE assert_loop(_, _, _)
assert_loop(h, n, i) ==
    IF i > n THEN FALSE
    ELSE IF i + 1 > n THEN assert_loop(h, n, i + 1)
    ELSE IF ~(h[i].time > h[i + 1].time) THEN TRUE
    ELSE IF DistanceGreater(h[i].position, h[i + 1].position, MAX_DISTANCE)
         THEN FALSE
    ELSE IF h[i].time - h[i + 1].time > MAX_INTERVAL THEN FALSE
    ELSE assert_loop(h, n, i + 1)

clicked_assert_fails(h, times) ==
    IF Len(h) < times THEN FALSE
    ELSE assert_loop(h, Min(times, Len(h)), 1)

-----------------------------------------------------------------------------
(* The buffer and its layout.  A line is its bytes, the style tag          *)
(* (Attrs::metadata, the index of a Text section) of each byte, or NoTag   *)
(* for a byte no span covers, and its line ending.  The layout engine is   *)
(* external: here every byte is one glyph GlyphW wide, every line one run  *)
(* LineHeight high, left to right.                                         *)

GlyphW == 4
LineHeight == 4

NoTag == -1

Line(t, a, e) == [text |-> t, attrs |-> a, ending |-> e]

LineCount(b) == Len(b)
LineAt(b, l) == b[l + 1]
LineLen(b, l) == Len(b[l + 1].text)

\* Buffer::hit on one run: the byte offset for pixel column x
HitIndex(len, x) ==
    IF len = 0 THEN 0
    ELSE IF x < 0 THEN 0
    ELSE IF \E k \in 0..(len - 1) : x >= k * GlyphW /\ x <= (k + 1) * GlyphW
    THEN LET k == CHOOSE k \in 0..(len - 1) :
                      /\ x >= k * GlyphW /\ x <= (k + 1) * GlyphW
                      /\ \A j \in 0..(len - 1) :
                            (x >= j * GlyphW /\ x <= (j + 1) * GlyphW) => k <= j
         IN  IF 2 * x >= 2 * k * GlyphW + GlyphW THEN k + 1 ELSE k
    ELSE len

\* Buffer::hit(x, y): Option<Cursor>
Buffer_hit(b, x, y) ==
    IF LineCount(b) = 0 THEN None
    ELSE IF y < 0 THEN Some(Cursor(0, 0))
    ELSE IF y >= LineCount(b) * LineHeight
    THEN Some(Cursor(LineCount(b) - 1, LineLen(b, LineCount(b) - 1)))
    ELSE LET l == y \div LineHeight
         IN  Some(Cursor(l, HitIndex(LineLen(b, l), x)))

\* AttrsList::get_span(index).metadata: the tag of the span covering the
\* byte, or that of the default attributes (0)
get_span_metadata(line, index) ==
    IF index < Len(line.text) /\ line.attrs[index + 1] # NoTag
    THEN line.attrs[index + 1]
    ELSE 0

-----------------------------------------------------------------------------
(* The entities: two editable text nodes (TextEditorBundle) and two plain  *)
(* text nodes, which have a CosmicBuffer and a Node but no EditorState:    *)
(* L, and U, which covers the same rectangle as L and whose buffer holds   *)
(* no laid out line, so that Buffer::hit finds no run in it.               *)
(* Regions is the iteration order of the query of hit.                     *)

Regions == <<"E1", "E2", "U", "L">>
Entities == {"E1", "E2", "U", "L"}
Editable == {"E1", "E2"}

\* GlobalTransform.translation: the centre of each node
Origin(e) == CASE e = "E1" -> Vec2(6, 6)
               [] e = "E2" -> Vec2(26, 6)
               [] e = "U"  -> Vec2(46, 6)
               [] e = "L"  -> Vec2(46, 6)

\* the bounds the layout gives the buffer of a node: those of the node
TextBounds(e) == <<Some(12), Some(12)>>

\* the expect of lib.rs 854-855 that fails on buffer.size(), if one does
size_expect(e) ==
    IF ~IsSome(size[e][1]) THEN Some("Buffer has a width")
    ELSE IF ~IsSome(size[e][2]) THEN Some("Buffer has a height")
    ELSE None

\* the Vec2 of lib.rs 853-856 when both expects hold
Size(e) == Vec2(Unwrap(size[e][1]), Unwrap(size[e][2]))

\* Rect::from_center_size(origin, size).contains(p): both edges inclusive
RectContains(origin, sz, p) ==
    /\ 2 * p.x >= 2 * origin.x - sz.x /\ 2 * p.x <= 2 * origin.x + sz.x
    /\ 2 * p.y >= 2 * origin.y - sz.y /\ 2 * p.y <= 2 * origin.y + sz.y

HitOutput(entity, span_index, position) ==
    [entity |-> entity, span_index |-> span_index, position |-> position]

\* the loop of hit from region i on: the size of every buffer the loop
\* reaches is taken before its rectangle is tested
RECURSIVE hit_loop(_, _, _)
hit_loop(b, p, i) ==
    IF i > Len(Regions) THEN None
    ELSE LET e == Regions[i]
             origin == Origin(e)
             sz == Size(e)
         IN  IF IsSome(size_expect(e)) THEN Panic(Unwrap(size_expect(e)))
             ELSE IF RectContains(origin, sz, p)
             THEN LET position == Vec2(p.x - (origin.x - sz.x \div 2),
                                       p.y - (origin.y - sz.y \div 2))
                      c == Buffer_hit(b[e], position.x, position.y)
                  IN  IF IsSome(c)
                      THEN Some(HitOutput(e,
                               get_span_metadata(LineAt(b[e], Unwrap(c).line),
                                                 Unwrap(c).index),
                               position))
                      ELSE hit_loop(b, p, i + 1)
             ELSE hit_loop(b, p, i + 1)

\* what Query<&Window, With<PrimaryWindow>> matches in a world with one
\* primary window: the window, given by its cursor_position(), which is
\* None when the pointer is outside it
Primary(pointer) == <<pointer>>

\* hit: window is what the query of the primary window matches;
\* single() panics unless that is one window
hit(b, window) ==
    IF Len(window) # 1 THEN Panic("Query::single")
    ELSE LET pointer == window[1]
         IN  IF ~IsSome(pointer) THEN None
             ELSE hit_loop(b, Unwrap(pointer), 1)

-----------------------------------------------------------------------------
(* cosmic_text::Editor as lib.rs drives it.  An editor is a cursor and a   *)
(* selection borrowed over a buffer; an editing state is the pair          *)
(* [ed, b] of the editor and the buffer it edits.                          *)

Take(s, n) == SubSeq(s, 1, Min(n, Len(s)))
Drop(s, n) == SubSeq(s, Min(n, Len(s)) + 1, Len(s))

State(ed, b) == [ed |-> ed, b |-> b]

\* Editor::new(buffer): Cursor::default(), Selection::None
Editor_new == [cursor |-> Cursor(0, 0), selection |-> SelectionNone]

set_cursor(ed, c) == [ed EXCEPT !.cursor = c]
set_selection(ed, sel) == [ed EXCEPT !.selection = sel]

IsSpace(ch) == ch = " "

\* the byte offsets at which a word (a maximal run of non-space bytes) starts
WordStarts(t) ==
    {i \in 0..(Len(t) - 1) :
        ~IsSpace(t[i + 1]) /\ (i = 0 \/ IsSpace(t[i]))}
\* ... and ends
WordEnds(t) ==
    {i \in 1..Len(t) :
        ~IsSpace(t[i]) /\ (i = Len(t) \/ IsSpace(t[i + 1]))}

SetMax(S) == CHOOSE x \in S : \A y \in S : y <= x
SetMin(S) == CHOOSE x \in S : \A y \in S : x <= y

\* Edit::selection_bounds
selection_bounds(ed, b) ==
    LET cursor == ed.cursor
        select == ed.selection.at
        lo == IF CursorLess(select, cursor) THEN select ELSE cursor
        hi == IF CursorLess(select, cursor) THEN cursor ELSE select
    IN  CASE ed.selection.kind = "None" -> None
          [] ed.selection.kind = "Line" ->
                LET start_line == Min(select.line, cursor.line)
                    end_line == Max(select.line, cursor.line)
                IN  Some(<<Cursor(start_line, 0),
                           Cursor(end_line, LineLen(b, end_line))>>)
          [] ed.selection.kind = "Word" ->
                LET st == {i \in WordStarts(LineAt(b, lo.line).text) :
                                i < lo.index}
                    en == {i \in WordEnds(LineAt(b, hi.line).text) :
                                i > hi.index}
                IN  Some(<<Cursor(lo.line, IF st = {} THEN 0 ELSE SetMax(st)),
                           Cursor(hi.line,
                                  IF en = {} THEN LineLen(b, hi.line)
                                  ELSE SetMin(en))>>)

\* BufferLine::split_off / append through Editor::delete_range: the bytes
\* from start to end go, the rest of the end line joins the start line
delete_range(b, start, end) ==
    LET first == LineAt(b, start.line)
        last == LineAt(b, end.line)
        joined == Line(Take(first.text, start.index)
                           \o Drop(last.text, end.index),
                       Take(first.attrs, start.index)
                           \o Drop(last.attrs, end.index),
                       last.ending)
    IN  Take(b, start.line) \o <<joined>> \o Drop(b, end.line + 1)

\* Editor::delete_selection
delete_selection(st) ==
    LET bounds == selection_bounds(st.ed, st.b)
    IN  IF ~IsSome(bounds) THEN st
        ELSE State([cursor |-> Unwrap(bounds)[1], selection |-> SelectionNone],
                   delete_range(st.b, Unwrap(bounds)[1], Unwrap(bounds)[2]))

\* Editor::insert_at for one character that is no line break: it takes the
\* attributes of the byte before it, and none at the start of a line
insert_char(st, ch) ==
    LET c == st.ed.cursor
        line == LineAt(st.b, c.line)
        tag == IF c.index = 0 THEN NoTag ELSE line.attrs[c.index]
        new == Line(Take(line.text, c.index) \o <<ch>> \o Drop(line.text, c.index),
                    Take(line.attrs, c.index) \o <<tag>>
                        \o Drop(line.attrs, c.index),
                    line.ending)
    IN  State(set_cursor(st.ed, Cursor(c.line, c.index + 1)),
              [st.b EXCEPT ![c.line + 1] = new])

\* Editor::insert_at for "\n": the line is split at the cursor, both parts
\* with the ending of the line
insert_newline(st) ==
    LET c == st.ed.cursor
        line == LineAt(st.b, c.line)
        head == Line(Take(line.text, c.index), Take(line.attrs, c.index),
                     line.ending)
        tail == Line(Drop(line.text, c.index), Drop(line.attrs, c.index),
                     line.ending)
    IN  State(set_cursor(st.ed, Cursor(c.line + 1, 0)),
              Take(st.b, c.line) \o <<head, tail>> \o Drop(st.b, c.line + 1))

\* Editor::insert_string: the selection is deleted first
insert_string_char(st, ch) == insert_char(delete_selection(st), ch)

Action_Insert(st, ch) ==
    IF ch = "\n" THEN insert_newline(delete_selection(st))
    ELSE insert_string_char(st, ch)

Action_Enter(st) == insert_newline(delete_selection(st))

\* Action::Backspace
Action_Backspace(st) ==
    IF st.ed.selection.kind # "None" THEN delete_selection(st)
    ELSE LET end == st.ed.cursor
             start == IF end.index > 0 THEN Cursor(end.line, end.index - 1)
                      ELSE IF end.line > 0
                      THEN Cursor(end.line - 1, LineLen(st.b, end.line - 1))
                      ELSE end
         IN  IF start # end
             THEN State(set_cursor(st.ed, start), delete_range(st.b, start, end))
             ELSE st

\* Action::Delete
Action_Delete(st) ==
    IF st.ed.selection.kind # "None" THEN delete_selection(st)
    ELSE LET start == st.ed.cursor
             end == IF start.index < LineLen(st.b, start.line)
                    THEN Cursor(start.line, start.index + 1)
                    ELSE IF start.line + 1 < LineCount(st.b)
                    THEN Cursor(start.line + 1, 0)
                    ELSE start
         IN  IF start # end
             THEN State(st.ed, delete_range(st.b, start, end))
             ELSE st

\* Buffer::cursor_motion.  The rows a page holds: Buffer::size().1 over the
\* line height; Motion::PageUp and PageDown do not move in a buffer
\* without a height
PageRows(e) == IF IsSome(size[e][2]) THEN Unwrap(size[e][2]) \div LineHeight
               ELSE 0

Motions == {"Left", "Right", "Up", "Down", "Home", "End", "PageUp", "PageDown"}

RECURSIVE cursor_vertical(_, _, _, _)
\* n times Motion::Up (down = FALSE) or Motion::Down, keeping the column x
cursor_vertical(b, c, x, n) ==
    IF n = 0 THEN c
    ELSE IF n < 0
    THEN IF c.line > 0
         THEN cursor_vertical(b, Cursor(c.line - 1,
                                        Min(x, LineLen(b, c.line - 1))), x, n + 1)
         ELSE cursor_vertical(b, Cursor(c.line, Min(x, LineLen(b, c.line))),
                              x, n + 1)
    ELSE IF c.line + 1 < LineCount(b)
         THEN cursor_vertical(b, Cursor(c.line + 1,
                                        Min(x, LineLen(b, c.line + 1))), x, n - 1)
         ELSE cursor_vertical(b, Cursor(c.line, Min(x, LineLen(b, c.line))),
                              x, n - 1)

cursor_motion(b, c, m, rows) ==
    CASE m = "Left" ->
            IF c.index > 0
            THEN Cursor(c.line, Max(0, Min(c.index, LineLen(b, c.line)) - 1))
            ELSE IF c.line > 0 THEN Cursor(c.line - 1, LineLen(b, c.line - 1))
            ELSE c
      [] m = "Right" ->
            IF c.index < LineLen(b, c.line) THEN Cursor(c.line, c.index + 1)
            ELSE IF c.line + 1 < LineCount(b) THEN Cursor(c.line + 1, 0)
            ELSE c
      [] m = "Up" -> cursor_vertical(b, c, c.index, -1)
      [] m = "Down" -> cursor_vertical(b, c, c.index, 1)
      [] m = "Home" -> Cursor(c.line, 0)
      [] m = "End" -> Cursor(c.line, LineLen(b, c.line))
      [] m = "PageUp" -> cursor_vertical(b, c, c.index, 0 - rows)
      [] m = "PageDown" -> cursor_vertical(b, c, c.index, rows)

\* Action::Motion: Buffer::cursor_motion answers None for a cursor that is
\* on no line of the buffer, and the cursor stays
Action_Motion(st, m, rows) ==
    IF st.ed.cursor.line >= LineCount(st.b) THEN st
    ELSE State(set_cursor(st.ed, cursor_motion(st.b, st.ed.cursor, m, rows)),
               st.b)

\* Action::Click, DoubleClick, TripleClick at pixel (x, y) of the buffer
Action_Click(st, x, y) ==
    LET hitc == Buffer_hit(st.b, x, y)
        ed0 == set_selection(st.ed, SelectionNone)
    IN  State(IF IsSome(hitc) THEN set_cursor(ed0, Unwrap(hitc)) ELSE ed0, st.b)

Action_DoubleClick(st, x, y) ==
    LET hitc == Buffer_hit(st.b, x, y)
        ed0 == set_selection(st.ed, SelectionNone)
    IN  State(IF IsSome(hitc)
              THEN [cursor |-> Unwrap(hitc),
                    selection |-> SelectionWord(Unwrap(hitc))]
              ELSE ed0, st.b)

Action_TripleClick(st, x, y) ==
    LET hitc == Buffer_hit(st.b, x, y)
        ed0 == set_selection(st.ed, SelectionNone)
    IN  State(IF IsSome(hitc)
              THEN [cursor |-> Unwrap(hitc),
                    selection |-> SelectionLine(Unwrap(hitc))]
              ELSE ed0, st.b)

-----------------------------------------------------------------------------
(* EditorState and TempEditor (lib.rs 752-800)                             *)

EditorState(cursor, selection, bounds) ==
    [cursor |-> cursor, selection |-> selection, selection_bounds |-> bounds]

EditorState_default == EditorState(None, SelectionNone, None)

\* mutation of TempEditor_new: the selection is not restored
TempEditor_new_cursor_only(editor_state, buffer) ==
    IF IsSome(editor_state.cursor)
    THEN set_cursor(Editor_new, Unwrap(editor_state.cursor))
    ELSE Editor_new

\* TempEditor::new (EditorState::resume): the editor the session starts with
TempEditor_new(editor_state, buffer) ==
    IF IsSome(editor_state.cursor)
    THEN set_selection(set_cursor(Editor_new, Unwrap(editor_state.cursor)),
                       editor_state.selection)
    ELSE Editor_new

\* mutation of with_editor_mut: the cursor is not written back
with_editor_mut_without_cursor(editor_state, st) ==
    EditorState(editor_state.cursor, st.ed.selection,
                selection_bounds(st.ed, st.b))

\* mutation of with_editor_mut: the selection bounds are not written back
with_editor_mut_stale_bounds(editor_state, st) ==
    EditorState(Some(st.ed.cursor), st.ed.selection,
                editor_state.selection_bounds)

\* with_editor_mut when selection_bounds() panics (lib.rs 797): the cursor
\* and the selection are written by then (795-796), the bounds are not
with_editor_mut_panics(editor_state, st) ==
    EditorState(Some(st.ed.cursor), st.ed.selection,
                editor_state.selection_bounds)

\* TempEditor::with_editor_mut after func(&mut self.editor) has left the
\* editing state st: the EditorState it writes back
with_editor_mut(editor_state, st) ==
    EditorState(Some(st.ed.cursor), st.ed.selection,
                selection_bounds(st.ed, st.b))

\* what a session leaves in call: the editor it started with and the
\* cursor, selection and selection bounds of the editor it ended with
Session(seed, st) ==
    [seeded |-> seed,
     cursor |-> st.ed.cursor, selection |-> st.ed.selection,
     selection_bounds |-> selection_bounds(st.ed, st.b)]

NoSessions == [e \in Editable |-> None]

Call(system, exit, entity, action, sessions) ==
    [system |-> system, exit |-> exit, entity |-> entity, action |-> action,
     sessions |-> sessions]

-----------------------------------------------------------------------------
(* handle_click (lib.rs 216-272)                                           *)

\* mutation of click_action: the double click is tested before the triple
click_action_double_first(h) ==
    IF clicked(h, 2) THEN "DoubleClick"
    ELSE IF clicked(h, 3) THEN "TripleClick"
    ELSE IF clicked(h, 1) THEN "Click"
    ELSE "unreachable"

\* mutation of click_action: the click after a triple click counts as the
\* first of a new sequence
click_action_wraps(h) ==
    IF clicked(h, 4) THEN "Click"
    ELSE IF clicked(h, 3) THEN "TripleClick"
    ELSE IF clicked(h, 2) THEN "DoubleClick"
    ELSE IF clicked(h, 1) THEN "Click"
    ELSE "unreachable"

\* the branch the closure of handle_click takes
click_action(h) ==
    IF clicked(h, 3) THEN "TripleClick"
    ELSE IF clicked(h, 2) THEN "DoubleClick"
    ELSE IF clicked(h, 1) THEN "Click"
    ELSE "unreachable"

\* the debug assertions the closure runs into on its way to that branch
click_assert_fails(h) ==
    \/ clicked_assert_fails(h, 3)
    \/ (~clicked(h, 3) /\ clicked_assert_fails(h, 2))
    \/ (~clicked(h, 3) /\ ~clicked(h, 2) /\ clicked_assert_fails(h, 1))

click_apply(st, action, position) ==
    CASE action = "TripleClick" -> Action_TripleClick(st, position.x, position.y)
      [] action = "DoubleClick" -> Action_DoubleClick(st, position.x, position.y)
      [] action = "Click" -> Action_Click(st, position.x, position.y)
      [] OTHER -> st

\* hit.pipe(handle_click).  pressed: mouse_button.just_pressed(
\* MouseButton::Left); window: what the query of the primary window
\* matches; t: what Instant::now() returns if it is read.  hit runs first,
\* whatever the button
handle_click(pressed, window, t) ==
    LET hitout == hit(buf, window)
    IN  IF IsPanic(hitout)
        THEN /\ call' = Call("handle_click", "panic", "", "", NoSessions)
             /\ UNCHANGED <<history, now, buf, text, es, scratch, assert_failed>>
        ELSE IF ~pressed
        THEN /\ call' = Call("handle_click", "not_pressed", "", "", NoSessions)
             /\ UNCHANGED <<history, now, buf, text, es, scratch, assert_failed>>
        ELSE IF ~IsSome(hitout)
        THEN /\ call' = Call("handle_click", "no_hit", "", "", NoSessions)
             /\ UNCHANGED <<history, now, buf, text, es, scratch, assert_failed>>
        ELSE LET parent == Unwrap(hitout).entity
                 position == Unwrap(hitout).position
                 h == add_entry(history, position, t)
             IN  /\ history' = since_oldest(h)
                 /\ now' = last_reading(h, t)
                 /\ IF parent \notin Editable
                    THEN /\ call' = Call("handle_click", "no_editor_state",
                                         parent, "", NoSessions)
                         /\ UNCHANGED <<buf, text, es, scratch, assert_failed>>
                    ELSE LET seed == TempEditor_new(es[parent], buf[parent])
                             action == click_action(h)
                             st == click_apply(State(seed, buf[parent]),
                                               action, position)
                         IN  /\ es' = [es EXCEPT ![parent] =
                                          with_editor_mut(es[parent], st)]
                             /\ buf' = [buf EXCEPT ![parent] = st.b]
                             /\ assert_failed' =
                                    (assert_failed \/ click_assert_fails(h))
                             /\ call' = Call("handle_click", "done", parent,
                                     action,
                                     [NoSessions EXCEPT ![parent] =
                                         Some(Session(seed, st))])
                             /\ UNCHANGED <<text, scratch>>

-----------------------------------------------------------------------------
(* listen_keyboard_input_events (lib.rs 274-388)                           *)

Key(kind, chars) == [kind |-> kind, chars |-> chars]

Act(op, arg) == [op |-> op, arg |-> arg]

\* the editor actions the match on event.logical_key runs, in order
RECURSIVE insert_actions(_)
insert_actions(chars) ==
    IF chars = <<>> THEN <<>>
    ELSE <<Act("Insert", Head(chars))>> \o insert_actions(Tail(chars))

key_actions(key) ==
    CASE key.kind = "Character" -> insert_actions(key.chars)
      [] key.kind = "Enter" -> <<Act("Enter", "")>>
      [] key.kind = "Space" -> <<Act("Insert", " ")>>
      [] key.kind = "Backspace" -> <<Act("Backspace", "")>>
      [] key.kind = "Delete" -> <<Act("Delete", "")>>
      [] key.kind = "ArrowDown" -> <<Act("Motion", "Down")>>
      [] key.kind = "ArrowLeft" -> <<Act("Motion", "Left")>>
      [] key.kind = "ArrowRight" -> <<Act("Motion", "Right")>>
      [] key.kind = "ArrowUp" -> <<Act("Motion", "Up")>>
      [] key.kind = "End" -> <<Act("Motion", "End")>>
      [] key.kind = "Home" -> <<Act("Motion", "Home")>>
      [] key.kind = "PageDown" -> <<Act("Motion", "PageDown")>>
      [] key.kind = "PageUp" -> <<Act("Motion", "PageUp")>>
      [] OTHER -> <<>>

\* Editor::action
Editor_action(st, a, rows) ==
    CASE a.op = "Insert" -> Action_Insert(st, a.arg)
      [] a.op = "Enter" -> Action_Enter(st)
      [] a.op = "Backspace" -> Action_Backspace(st)
      [] a.op = "Delete" -> Action_Delete(st)
      [] a.op = "Motion" -> Action_Motion(st, a.arg, rows)

\* Edit::selection_bounds indexes buffer.lines with the lines of a Word or
\* Line selection: out of bounds, it panics
selection_bounds_panics(ed, b) ==
    /\ ed.selection.kind # "None"
    /\ Max(ed.selection.at.line, ed.cursor.line) >= LineCount(b)

\* Editor::action indexes buffer.lines with the line of the cursor and
\* splits the line at its index: an insertion or a deletion at a cursor
\* that is not in the buffer panics, a motion does not
action_panics(st, a) ==
    LET c == st.ed.cursor
    IN  IF a.op = "Motion" THEN FALSE
        ELSE IF st.ed.selection.kind # "None"
        THEN selection_bounds_panics(st.ed, st.b)
        ELSE IF c.line >= LineCount(st.b) THEN TRUE
        ELSE IF a.op = "Delete"
        THEN c.index > LineLen(st.b, c.line) /\ c.line + 1 < LineCount(st.b)
        ELSE c.index > LineLen(st.b, c.line)

\* a session as far as it gets: st is the editing state the actions that
\* ran have left, and panic says where the session panicked: in the
\* "closure", at an action, in the "write_back" of with_editor_mut, or ""
RECURSIVE session_run(_, _, _)
session_run(st, acts, rows) ==
    IF acts = <<>>
    THEN [st |-> st,
          panic |-> IF selection_bounds_panics(st.ed, st.b)
                    THEN "write_back" ELSE ""]
    ELSE IF action_panics(st, Head(acts)) THEN [st |-> st, panic |-> "closure"]
    ELSE session_run(Editor_action(st, Head(acts), rows), Tail(acts), rows)

RECURSIVE apply_actions(_, _, _)
apply_actions(st, acts, rows) ==
    IF acts = <<>> THEN st
    ELSE apply_actions(Editor_action(st, Head(acts), rows), Tail(acts), rows)

\* line.attrs_list().spans(): the styled ranges of a line in byte order,
\* from byte i on; bytes no span covers have NoTag
RECURSIVE spans_from(_, _)
spans_from(attrs, i) ==
    IF i >= Len(attrs) THEN <<>>
    ELSE IF attrs[i + 1] = NoTag THEN spans_from(attrs, i + 1)
    ELSE LET stops == {j \in (i + 1)..Len(attrs) :
                          j = Len(attrs) \/ attrs[j + 1] # attrs[i + 1]}
             j == SetMin(stops)
         IN  <<[start |-> i, end |-> j, metadata |-> attrs[i + 1]]>>
                 \o spans_from(attrs, j)

spans(line) == spans_from(line.attrs, 0)

\* scratch_spans_for_update.entry(k).or_default().push_str(str)
push_str(m, k, str) ==
    IF k \in DOMAIN m THEN [m EXCEPT ![k] = @ \o str] ELSE m @@ (k :> str)

Slice(t, from, to) == SubSeq(t, from + 1, to)

\* the loop over the spans of one line (lib.rs 344-358), from span k on
RECURSIVE reconcile_spans(_, _, _, _, _, _)
reconcile_spans(m, line, sp, k, current_pos, bevy_span_index) ==
    IF k > Len(sp)
    THEN [m |-> m, current_pos |-> current_pos,
          bevy_span_index |-> bevy_span_index]
    ELSE LET range == sp[k]
             len == Len(line.text)
             gap == IF current_pos < range.start
                    THEN Slice(line.text, current_pos, range.start)
                    ELSE <<>>
             ending == IF range.end = len THEN line.ending ELSE <<>>
             m1 == push_str(m, range.metadata,
                            gap \o Slice(line.text, range.start, range.end)
                                \o ending)
         IN  reconcile_spans(m1, line, sp, k + 1, range.end, range.metadata)

\* mutation of reconcile_line: the final part of the line goes to section 0
reconcile_line_final_to_first(m, line) ==
    LET len == Len(line.text)
        r == reconcile_spans(m, line, spans(line), 1, 0, 0)
    IN  IF r.current_pos < len
        THEN push_str(r.m, 0,
                      Slice(line.text, r.current_pos, len) \o line.ending)
        ELSE r.m

\* one line of "rebuild the text from scratch" (lib.rs 327-367)
reconcile_line(m, line) ==
    LET len == Len(line.text)
        r == reconcile_spans(m, line, spans(line), 1, 0, 0)
    IN  IF r.current_pos < len
        THEN push_str(r.m, r.bevy_span_index,
                      Slice(line.text, r.current_pos, len) \o line.ending)
        ELSE r.m

RECURSIVE reconcile_lines(_, _, _)
reconcile_lines(m, b, i) ==
    IF i > Len(b) THEN m
    ELSE reconcile_lines(reconcile_line(m, b[i]), b, i + 1)

\* "apply the changes" (lib.rs 370-377) from section i (0-based) on:
\* the sections, the map and the indices pushed for deletion
RECURSIVE apply_updates(_, _, _, _, _)
apply_updates(sections, m, deletion, i, n) ==
    IF i >= n
    THEN [sections |-> sections, m |-> m, deletion |-> deletion]
    ELSE IF i \in DOMAIN m
    THEN apply_updates([sections EXCEPT ![i + 1] = m[i]],
                       [k \in DOMAIN m \ {i} |-> m[k]], deletion, i + 1, n)
    ELSE apply_updates(sections, m, Append(deletion, i), i + 1, n)

\* mutation of Reverse: the deletions are applied in ascending order
NotReversed(q) == q

Reverse(q) == [k \in 1..Len(q) |-> q[Len(q) + 1 - k]]

RemoveAt(q, i) == SubSeq(q, 1, i) \o SubSeq(q, i + 2, Len(q))

\* mutation of drain_deletions: the last section is removed as well
RECURSIVE drain_deletions_to_none(_, _)
drain_deletions_to_none(sections, deletion) ==
    IF deletion = <<>> THEN sections
    ELSE drain_deletions_to_none(RemoveAt(sections, Head(deletion)),
                                 Tail(deletion))

\* the drain of scratch_spans_for_deletion (lib.rs 379-385)
RECURSIVE drain_deletions(_, _)
drain_deletions(sections, deletion) ==
    IF deletion = <<>> THEN sections
    ELSE IF Len(sections) > 1
    THEN drain_deletions(RemoveAt(sections, Head(deletion)), Tail(deletion))
    ELSE drain_deletions([sections EXCEPT ![1] = <<>>], Tail(deletion))

\* lib.rs 326-385 for one entity: the sections and the map afterwards
reconcile(sections, m, b) ==
    LET m1 == reconcile_lines(m, b, 1)
        r == apply_updates(sections, m1, <<>>, 0, Len(sections))
    IN  [sections |-> drain_deletions(r.sections, Reverse(r.deletion)),
         m |-> r.m]

\* mutation of EditableOrder: only the first entity is given the key
EditableOrder_first == <<"E1">>

\* the iteration order of the query of listen_keyboard_input_events
EditableOrder == <<"E1", "E2">>

\* the body of "for (buf, text, editor_state) in &mut buffer" for the
\* entities from the i-th on; w is the world [buf, text, es, scratch,
\* sessions], and panic: the system has panicked in a session.  The
\* entities before the one whose session panics are done by then, and the
\* session has changed the buffer in place as far as it got
RECURSIVE key_entities(_, _, _)
key_entities(w, key, i) ==
    IF i > Len(EditableOrder) THEN w
    ELSE LET e == EditableOrder[i]
             seed == TempEditor_new(w.es[e], w.buf[e])
             run == session_run(State(seed, w.buf[e]), key_actions(key),
                                PageRows(e))
             st == apply_actions(State(seed, w.buf[e]), key_actions(key),
                                 PageRows(e))
             r == reconcile(w.text[e], w.scratch, st.b)
         IN  IF run.panic = "closure"
             THEN [w EXCEPT !.panic = TRUE, !.buf[e] = run.st.b]
             ELSE IF run.panic = "write_back"
             THEN [w EXCEPT !.panic = TRUE, !.buf[e] = run.st.b,
                            !.es[e] = with_editor_mut_panics(w.es[e], run.st)]
             ELSE key_entities(
                 [panic |-> FALSE,
                  buf |-> [w.buf EXCEPT ![e] = st.b],
                  text |-> [w.text EXCEPT ![e] = r.sections],
                  es |-> [w.es EXCEPT ![e] = with_editor_mut(w.es[e], st)],
                  scratch |-> r.m,
                  sessions |-> [w.sessions EXCEPT ![e] =
                                   Some(Session(seed, st))]],
                 key, i + 1)

\* mutation of event_applies: a released key is applied like a pressed one
event_applies_on_release(state) == TRUE

\* lib.rs 283-285: only a key that is first pressed triggers changes
event_applies(state) == state # "Released"

\* one event of events.read(): state is "Pressed" or "Released"
keyboard_event(state, key) ==
    IF ~event_applies(state)
    THEN /\ call' = Call("keyboard", "released", "", "", NoSessions)
         /\ UNCHANGED <<history, now, buf, text, es, scratch, assert_failed>>
    ELSE LET w == key_entities([panic |-> FALSE, buf |-> buf, text |-> text,
                                es |-> es, scratch |-> scratch,
                                sessions |-> NoSessions],
                               key, 1)
         IN  /\ buf' = w.buf
             /\ text' = w.text
             /\ es' = w.es
             /\ scratch' = w.scratch
             /\ call' = Call("keyboard",
                             IF w.panic THEN "panic"
                             ELSE IF state = "Released" THEN "released"
                             ELSE "done",
                             "", key.kind, w.sessions)
             /\ UNCHANGED <<history, now, assert_failed>>

-----------------------------------------------------------------------------
(* Glyph geometry (lib.rs 623-750).  A LayoutRun is the line it lays out,  *)
(* the top of the line, the direction of the paragraph and its glyphs in   *)
(* visual order.  A glyph covers the bytes start..end of the line, at x    *)
(* with width w; graphemes holds the byte length of each grapheme cluster  *)
(* of run.text[start..end].  An f32 is the fraction num/den; the widths    *)
(* and grapheme counts used keep every f32 operation exact.                *)

Glyph(start, graphemes, x, w, rtl) ==
    [start |-> start, graphemes |-> graphemes, x |-> x, w |-> w, rtl |-> rtl]

RECURSIVE SumSeq(_)
SumSeq(q) == IF q = <<>> THEN 0 ELSE Head(q) + SumSeq(Tail(q))

\* glyph.end
GlyphEnd(glyph) == glyph.start + SumSeq(glyph.graphemes)

LayoutRun(line_i, line_top, rtl, glyphs) ==
    [line_i |-> line_i, line_top |-> line_top, rtl |-> rtl, glyphs |-> glyphs]

\* cluster.grapheme_indices(true): the byte offset in the cluster of its
\* k-th grapheme (1-based k)
grapheme_index(glyph, k) == SumSeq(SubSeq(glyph.graphemes, 1, k - 1))

\* (num / den) as i32: truncation towards zero
as_i32(num, den) ==
    IF num >= 0 THEN num \div den ELSE 0 - ((0 - num) \div den)

\* mutation of graphemes_before: a grapheme that starts at the cursor counts
graphemes_up_to(glyph, index) ==
    Cardinality({k \in 1..Len(glyph.graphemes) :
                    glyph.start + grapheme_index(glyph, k) <= index})

\* lib.rs 726-733: before, the graphemes of the cluster that start before
\* the cursor (total is Len(glyph.graphemes))
graphemes_before(glyph, index) ==
    Cardinality({k \in 1..Len(glyph.graphemes) :
                    glyph.start + grapheme_index(glyph, k) < index})

\* mutation of cursor_glyph_last: any cursor behind the last glyph is at
\* its end
cursor_glyph_last_or_past(cursor, run) ==
    IF run.glyphs = <<>> THEN Some(<<0, [num |-> 0, den |-> 1]>>)
    ELSE IF cursor.index >= GlyphEnd(run.glyphs[Len(run.glyphs)])
    THEN Some(<<Len(run.glyphs), [num |-> 0, den |-> 1]>>)
    ELSE None

\* lib.rs 738-747: match run.glyphs.last()
cursor_glyph_last(cursor, run) ==
    IF run.glyphs = <<>> THEN Some(<<0, [num |-> 0, den |-> 1]>>)
    ELSE IF cursor.index = GlyphEnd(run.glyphs[Len(run.glyphs)])
    THEN Some(<<Len(run.glyphs), [num |-> 0, den |-> 1]>>)
    ELSE None

RECURSIVE cursor_glyph_loop(_, _, _)
\* lib.rs 718-737: the loop over the glyphs from the i-th (1-based) on
cursor_glyph_loop(cursor, run, i) ==
    IF i > Len(run.glyphs) THEN cursor_glyph_last(cursor, run)
    ELSE LET glyph == run.glyphs[i]
         IN  IF cursor.index = glyph.start
             THEN Some(<<i - 1, [num |-> 0, den |-> 1]>>)
             ELSE IF cursor.index > glyph.start /\ cursor.index < GlyphEnd(glyph)
             THEN Some(<<i - 1,
                         [num |-> glyph.w * graphemes_before(glyph, cursor.index),
                          den |-> Len(glyph.graphemes)]>>)
             ELSE cursor_glyph_loop(cursor, run, i + 1)

\* cursor_glyph_opt: Option<(glyph index, offset in the glyph)>
cursor_glyph_opt(cursor, run) ==
    IF cursor.line = run.line_i THEN cursor_glyph_loop(cursor, run, 1)
    ELSE None

\* mutation of cursor_x: the direction of the glyph is not looked at
cursor_x_ltr_only(run, cursor_glyph, offset) ==
    IF cursor_glyph < Len(run.glyphs)
    THEN LET glyph == run.glyphs[cursor_glyph + 1]
         IN  as_i32(glyph.x * offset.den + offset.num, offset.den)
    ELSE IF run.glyphs # <<>>
    THEN LET glyph == run.glyphs[Len(run.glyphs)]
         IN  glyph.x + glyph.w
    ELSE 0

\* lib.rs 626-649: the x of cursor_position
cursor_x(run, cursor_glyph, offset) ==
    IF cursor_glyph < Len(run.glyphs)
    THEN LET glyph == run.glyphs[cursor_glyph + 1]
         IN  IF glyph.rtl
             THEN as_i32((glyph.x + glyph.w) * offset.den - offset.num,
                         offset.den)
             ELSE as_i32(glyph.x * offset.den + offset.num, offset.den)
    ELSE IF run.glyphs # <<>>
    THEN LET glyph == run.glyphs[Len(run.glyphs)]
         IN  IF glyph.rtl THEN glyph.x ELSE glyph.x + glyph.w
    ELSE 0

\* cursor_position: Option<(x, y)>
cursor_position(cursor, run) ==
    LET g == cursor_glyph_opt(cursor, run)
    IN  IF ~IsSome(g) THEN None
        ELSE Some(<<cursor_x(run, Unwrap(g)[1], Unwrap(g)[2]), run.line_top>>)

\* mutation of grapheme_selected: a grapheme that ends where the selection
\* starts is selected
grapheme_selected_from_end(start, end, line_i, c_start, c_end) ==
    /\ (start.line # line_i \/ c_end >= start.index)
    /\ (end.line # line_i \/ c_start < end.index)

\* lib.rs 679-680: the condition under which a grapheme extends the range
grapheme_selected(start, end, line_i, c_start, c_end) ==
    /\ (start.line # line_i \/ c_end > start.index)
    /\ (end.line # line_i \/ c_start < end.index)

RECURSIVE highlight_loop(_, _, _, _, _, _)
\* lib.rs 669-692: the loops over the glyphs and their graphemes, from the
\* k-th grapheme of the gi-th glyph on (both 1-based); returned: the
\* function has returned range from inside the loop
highlight_loop(run, start, end, gi, k, range_opt) ==
    IF gi > Len(run.glyphs) THEN [returned |-> FALSE, range |-> range_opt]
    ELSE LET glyph == run.glyphs[gi]
             total == Len(glyph.graphemes)
         IN  IF k > total
             THEN highlight_loop(run, start, end, gi + 1, 1, range_opt)
             ELSE LET c_start == glyph.start + grapheme_index(glyph, k)
                      c_end == c_start + glyph.graphemes[k]
                      left == as_i32(glyph.x * total + (k - 1) * glyph.w, total)
                      right == as_i32(glyph.x * total + k * glyph.w, total)
                  IN  IF grapheme_selected(start, end, run.line_i, c_start, c_end)
                      THEN highlight_loop(run, start, end, gi, k + 1,
                               IF IsSome(range_opt)
                               THEN Some(<<Min(Unwrap(range_opt)[1], left),
                                           Max(Unwrap(range_opt)[2], right)>>)
                               ELSE Some(<<left, right>>))
                      ELSE IF IsSome(range_opt)
                      THEN [returned |-> TRUE, range |-> range_opt]
                      ELSE highlight_loop(run, start, end, gi, k + 1, None)

\* buffer_width.unwrap_or(0.0) as i32
width_or_zero(buffer_width) ==
    IF IsSome(buffer_width) THEN Unwrap(buffer_width) ELSE 0

\* (min, line_top as i32, cmp::max(0, max - min) as u32)
highlight_span(range, run) ==
    <<range[1], run.line_top, Max(0, range[2] - range[1])>>

\* lib.rs 700-707: "Draw to end of line"
draw_to_end_of_line(range, end, buffer_width, run) ==
    IF end.line > run.line_i
    THEN IF run.rtl THEN <<0, range[2]>>
         ELSE <<range[1], width_or_zero(buffer_width)>>
    ELSE range

\* lib.rs 694-697: "Highlight all of internal empty lines"
empty_run_range(range_opt, end, buffer_width, run) ==
    IF run.glyphs = <<>> /\ end.line > run.line_i
    THEN Some(<<0, width_or_zero(buffer_width)>>)
    ELSE range_opt

\* highlight_selection: Option<(x, y, width)>
highlight_selection(bounds, buffer_width, run) ==
    IF ~IsSome(bounds) THEN None
    ELSE LET start == Unwrap(bounds)[1]
             end == Unwrap(bounds)[2]
         IN  IF ~(run.line_i >= start.line /\ run.line_i <= end.line) THEN None
             ELSE LET r == highlight_loop(run, start, end, 1, 1, None)
                      range_opt == empty_run_range(r.range, end, buffer_width,
                                                   run)
                  IN  IF r.returned
                      THEN Some(highlight_span(Unwrap(r.range), run))
                      ELSE IF IsSome(range_opt)
                      THEN Some(highlight_span(
                               draw_to_end_of_line(Unwrap(range_opt), end,
                                                   buffer_width, run), run))
                      ELSE None

-----------------------------------------------------------------------------
(* The program: the two input systems of PreUpdate, one call per step      *)

\* "a b\n" in section 0 and "c" in section 1; a single "a"
\* the loop of extract_cursor over buffer.layout_runs() (lib.rs 472-502),
\* for an entity that is visible and has a camera: the positions of the
\* caret rectangles it inserts, in run order
RECURSIVE extract_cursor_runs(_, _)
extract_cursor_runs(cursor, runs) ==
    IF runs = <<>> THEN <<>>
    ELSE LET p == cursor_position(cursor, Head(runs))
         IN  (IF IsSome(p)
              THEN <<Vec2(Unwrap(p)[1], Unwrap(p)[2] + LineHeight \div 2)>>
              ELSE <<>>) \o extract_cursor_runs(cursor, Tail(runs))

\* extract_cursor for one entity (lib.rs 429-502): nothing while the
\* cursor of the EditorState is unset
extract_cursor(editor_cursor, runs) ==
    IF ~IsSome(editor_cursor) THEN <<>>
    ELSE extract_cursor_runs(Unwrap(editor_cursor), runs)

\* the bytes of the sections one after the other, each with the index of
\* its section (the metadata of the attributes the text pipeline gives it)
RECURSIVE rich_bytes(_, _)
rich_bytes(sections, i) ==
    IF i > Len(sections) THEN <<>>
    ELSE [k \in 1..Len(sections[i]) |->
              [ch |-> sections[i][k], tag |-> i - 1]]
             \o rich_bytes(sections, i + 1)

\* the lines of the bytes: a line ends at a line break, and what follows
\* the last line break is a line if it is not empty
RECURSIVE rich_lines(_, _)
rich_lines(bytes, line) ==
    IF bytes = <<>>
    THEN IF line.text = <<>> THEN <<>> ELSE <<line>>
    ELSE IF Head(bytes).ch = "\n"
    THEN <<[line EXCEPT !.ending = <<"\n">>]>>
             \o rich_lines(Tail(bytes), Line(<<>>, <<>>, <<>>))
    ELSE rich_lines(Tail(bytes),
                    Line(Append(line.text, Head(bytes).ch),
                         Append(line.attrs, Head(bytes).tag), <<>>))

\* Buffer::set_rich_text over the sections of a Text, as the text pipeline
\* calls it when the Text has changed: the buffer's lines are replaced,
\* and an empty text is one empty line
set_rich_text(sections) ==
    LET lines == rich_lines(rich_bytes(sections, 1), Line(<<>>, <<>>, <<>>))
    IN  IF lines = <<>> THEN <<Line(<<>>, <<>>, <<>>)>> ELSE lines

InitText == [e \in Editable |->
                IF e = "E1" THEN << <<"a", " ", "b", "\n">>, <<"c">> >>
                ELSE << <<"a">> >>]

\* the buffers the text pipeline lays out for these sections
InitBuf == [e \in Entities |->
               IF e = "E1"
               THEN << Line(<<"a", " ", "b">>, <<0, 0, 0>>, <<"\n">>),
                       Line(<<"c">>, <<1>>, <<>>) >>
               ELSE IF e = "U" THEN << >>
               ELSE << Line(<<"a">>, <<0>>, <<>>) >>]

\* window positions of the pointer: three in E1 (2 and 5 pixels from the
\* first), one in E2, one in U and L, one in no region; None: outside the
\* window
Pointers == {None, Some(Vec2(1, 1)), Some(Vec2(3, 1)), Some(Vec2(6, 1)),
             Some(Vec2(21, 1)), Some(Vec2(41, 1)), Some(Vec2(100, 100))}

\* by how much the clock has advanced when it is read again (ms)
Deltas == {0, 100, 500, 600}

Keys == {Key("Character", <<"a">>), Key("Character", <<"a", "b">>)}
        \cup {Key(k, <<>>) : k \in {"Enter", "Space", "Backspace", "Delete",
                "Control", "Shift", "Tab", "ArrowDown", "ArrowLeft",
                "ArrowRight", "ArrowUp", "End", "Home", "PageDown", "PageUp",
                "Escape"}}

\* nothing has been asked of a layout run
Geometry_none ==
    [run |-> LayoutRun(0, 0, FALSE, <<>>), ask |-> "", cursor |-> Cursor(0, 0),
     selection_bounds |-> None, buffer_width |-> None, done |-> FALSE,
     answer |-> None, runs |-> <<>>, editor_cursor |-> None]

\* the EditorState and the CosmicBuffer of every editable entity, as a
\* system that queries them reads them
Queried(states, buffers) ==
    [e \in Editable |-> [es |-> states[e], buf |-> buffers[e]]]

\* the frame starts in PreUpdate with no event being handled; event: the
\* last key event read and what the entities were when it was read;
\* observed: what the extraction systems have read last
Frame_new ==
    [stage |-> "PreUpdate", key |-> None, i |-> 1, editor |-> None,
     pending |-> <<>>, event |-> None, observed |-> None]

\* the editable entities are as TextEditorBundle spawns them (lib.rs
\* 60-62, 109-115), buffer: CosmicBuffer::default() with no line and no
\* size, next to plain nodes that are laid out; or the first frame is over,
\* with its layout and no input
Init ==
    /\ history = ClickHistory_new
    /\ now = 0
    /\ \/ /\ buf = [e \in Entities |->
                       IF e \in Editable THEN <<>> ELSE InitBuf[e]]
          /\ size = [e \in Entities |->
                        IF e \in Editable THEN <<None, None>>
                        ELSE TextBounds(e)]
       \/ /\ buf = InitBuf
          /\ size = [e \in Entities |-> TextBounds(e)]
    /\ text = InitText
    /\ es = [e \in Editable |-> EditorState_default]
    /\ scratch = <<>>
    /\ assert_failed = FALSE
    /\ call = Call("startup", "", "", "", NoSessions)
    /\ events = 0
    /\ frame = Frame_new
    /\ geometry = Geometry_none

\* no system has panicked
Running == call.exit # "panic"

\* the clock is read only by add_entry, on a hit; the query of the primary
\* window matches no window, or one with its pointer
HandleClick ==
    /\ Running
    /\ events < MaxEvents
    /\ events' = events + 1
    /\ \E pressed \in BOOLEAN,
          window \in {<<>>} \cup {Primary(pointer) : pointer \in Pointers} :
           IF pressed /\ IsSome(hit(buf, window))
           THEN \E dt \in Deltas : handle_click(pressed, window, now + dt)
           ELSE handle_click(pressed, window, now)
    /\ UNCHANGED <<size, frame, geometry>>

ListenKeyboard ==
    /\ Running
    /\ events < MaxEvents
    /\ events' = events + 1
    /\ \E state \in {"Pressed", "Released"}, key \in Keys :
           keyboard_event(state, key)
    /\ UNCHANGED <<size, frame, geometry>>

\* the buffers the text pipeline lays out from the Text of the entities;
\* it sets their sizes to the bounds of their nodes
update_buffer(b, sections) ==
    [e \in Entities |->
        IF e \in Editable THEN set_rich_text(sections[e]) ELSE b[e]]

\* the text system of the frame, after PreUpdate: a spawned entity is
\* laid out, and every pressed key has written the sections (lib.rs
\* 370-385), so the Text is changed and its buffer is laid out again; the
\* EditorStates are not touched.  A layout counts as a step of the
\* behaviour, like an input event
TextSystem ==
    /\ Running
    /\ events < MaxEvents
    /\ buf' = update_buffer(buf, text)
    /\ size' = [e \in Entities |->
                   IF e \in Editable THEN TextBounds(e) ELSE size[e]]
    /\ <<buf', size'>> # <<buf, size>>
    /\ call' = Call("text_system", "done", "", "", NoSessions)
    /\ events' = events + 1
    /\ UNCHANGED <<history, now, text, es, scratch, assert_failed,
                   frame, geometry>>

Next == HandleClick \/ ListenKeyboard \/ TextSystem

Spec == Init /\ [][Next]_vars

-----------------------------------------------------------------------------
(* ClickHistory on its own: any sequence of add_entry calls; events counts  *)
(* the calls up to one more than the capacity                              *)

Positions == {Vec2(1, 1), Vec2(3, 1), Vec2(3, 3), Vec2(6, 1)}

AddEntry ==
    /\ \E position \in Positions, dt \in Deltas :
           /\ history' = since_oldest(add_entry(history, position, now + dt))
           /\ now' = last_reading(add_entry(history, position, now + dt),
                                  now + dt)
    /\ events' = Min(events + 1, MAX_ENTRIES + 1)
    /\ call' = Call("add_entry", "", "", "", NoSessions)
    /\ UNCHANGED <<buf, size, text, es, scratch, assert_failed, frame,
                   geometry>>

SpecHistory == Init /\ [][AddEntry]_vars

-----------------------------------------------------------------------------
(* Reconciliation on its own: the keyboard system handles keys that edit   *)
(* nothing, so that each call is the reconciliation of the buffer it finds *)

Alphabet == <<"a", "b", "c", "d", "e", "f", "g", "h", "i", "j", "k", "l", "m",
              "n", "o", "p", "q", "r", "s", "t", "u">>

\* the line of the note at lib.rs 332-341, cut down to its first two spans:
\* 21 bytes, 2..7 of section 1, 9..12 of section 2, the rest unstyled
ExampleLine ==
    Line(Alphabet,
         [i \in 1..21 |-> IF i - 1 >= 2 /\ i - 1 < 7 THEN 1
                          ELSE IF i - 1 >= 9 /\ i - 1 < 12 THEN 2
                          ELSE NoTag],
         <<>>)

\* single lines of distinct bytes, each byte unstyled or of section 1 or 2
ReconcileLines ==
    {ExampleLine} \cup
    UNION {{Line(SubSeq(Alphabet, 1, n), attrs, <<>>) :
               attrs \in [1..n -> {NoTag, 1, 2}]} : n \in 0..MaxLineLen}

\* n sections, the first holding the text the line was laid out from
ReconcileText(line, n) == SubSeq(<<line.text, <<>>, <<>>>>, 1, n)

InitReconcile ==
    /\ history = ClickHistory_new
    /\ now = 0
    /\ \E line \in ReconcileLines, n \in 1..3 :
           /\ buf = [InitBuf EXCEPT !["E1"] = <<line>>]
           /\ size = [e \in Entities |-> TextBounds(e)]
           /\ text = [InitText EXCEPT !["E1"] = ReconcileText(line, n)]
           /\ frame = Frame_new
    /\ es = [e \in Editable |-> EditorState_default]
    /\ scratch = <<>>
    /\ assert_failed = FALSE
    /\ call = Call("startup", "", "", "", NoSessions)
    /\ events = 0
    /\ geometry = Geometry_none

KeyReconcile ==
    /\ events < MaxEvents
    /\ events' = events + 1
    /\ \E key \in {k \in Keys : key_actions(k) = <<>>} :
           keyboard_event("Pressed", key)
    /\ UNCHANGED <<size, frame, geometry>>

SpecReconcile == InitReconcile /\ [][KeyReconcile]_vars

-----------------------------------------------------------------------------
(* One frame after another: PreUpdate runs the two input systems, the      *)
(* keyboard system action by action; the text system lays the buffers out  *)
(* again; ExtractSchedule runs after the main schedules of the frame are   *)
(* done (lib.rs 29-46).  A panic of a system ends the behaviour.           *)

\* nothing of PreUpdate is under way
main_schedule_done(f) == ~IsSome(f.key) /\ ~IsSome(f.editor)

\* mutation of closure_returns: the closure returns with an action left
closure_returns_early(pending) == Len(pending) <= 1

\* the closure given to with_editor_mut returns when the match on the key
\* has run all its editor actions (lib.rs 288-324)
closure_returns(pending) == pending = <<>>

\* hit.pipe(handle_click), one call
FrameClick ==
    /\ frame.stage = "PreUpdate"
    /\ ~IsSome(frame.key)
    /\ events < MaxEvents
    /\ events' = events + 1
    /\ \E pointer \in {Some(Vec2(3, 1)), Some(Vec2(21, 1))}, dt \in {100} :
           handle_click(TRUE, Primary(pointer), now + dt)
    /\ frame' = [frame EXCEPT !.event = None,
                              !.stage = IF call'.exit = "panic" THEN "panic"
                                        ELSE @]
    /\ UNCHANGED <<size, geometry>>

\* "for event in events.read()": the next pressed key
KeyEvent ==
    /\ frame.stage = "PreUpdate"
    /\ ~IsSome(frame.key)
    /\ events < MaxEvents
    /\ events' = events + 1
    /\ \E key \in {Key("Character", <<"a", "b">>), Key("Backspace", <<>>),
                    Key("ArrowRight", <<>>), Key("Control", <<>>)} :
           frame' = [frame EXCEPT !.key = Some(key), !.i = 1,
                                  !.event = Some([key |-> key,
                                                  was |-> Queried(es, buf)])]
    /\ UNCHANGED <<history, now, buf, size, text, es, scratch, assert_failed,
                   call, geometry>>

\* editor_state.resume(&mut buf) for the next entity of the query
SessionOpen ==
    /\ frame.stage = "PreUpdate"
    /\ IsSome(frame.key) /\ ~IsSome(frame.editor)
    /\ LET e == EditableOrder[frame.i]
       IN  frame' = [frame EXCEPT
                        !.editor = Some(TempEditor_new(es[e], buf[e])),
                        !.pending = key_actions(Unwrap(frame.key))]
    /\ UNCHANGED <<history, now, buf, size, text, es, scratch, assert_failed,
                   call, events, geometry>>

\* one editor.action(..) of the closure: the buffer changes in place
SessionAct ==
    /\ frame.stage = "PreUpdate"
    /\ IsSome(frame.editor) /\ frame.pending # <<>>
    /\ LET e == EditableOrder[frame.i]
           was == State(Unwrap(frame.editor), buf[e])
           st == Editor_action(was, Head(frame.pending), PageRows(e))
       IN  IF action_panics(was, Head(frame.pending))
           THEN /\ frame' = [frame EXCEPT !.stage = "panic"]
                /\ UNCHANGED buf
           ELSE /\ buf' = [buf EXCEPT ![e] = st.b]
                /\ frame' = [frame EXCEPT !.editor = Some(st.ed),
                                          !.pending = Tail(frame.pending)]
    /\ UNCHANGED <<history, now, size, text, es, scratch, assert_failed, call,
                   events, geometry>>

\* the closure has returned: with_editor_mut writes the state back, the
\* text is rebuilt, and the loop goes on to the next entity
SessionCommit ==
    /\ frame.stage = "PreUpdate"
    /\ IsSome(frame.editor) /\ closure_returns(frame.pending)
    /\ LET e == EditableOrder[frame.i]
           st == State(Unwrap(frame.editor), buf[e])
           r == reconcile(text[e], scratch, buf[e])
           last == frame.i = Len(EditableOrder)
       IN  IF selection_bounds_panics(st.ed, st.b)
           THEN /\ es' = [es EXCEPT ![e] = with_editor_mut_panics(es[e], st)]
                /\ frame' = [frame EXCEPT !.stage = "panic"]
                /\ UNCHANGED <<text, scratch>>
           ELSE /\ es' = [es EXCEPT ![e] = with_editor_mut(es[e], st)]
                /\ text' = [text EXCEPT ![e] = r.sections]
                /\ scratch' = r.m
                /\ frame' = [frame EXCEPT
                                 !.editor = None,
                                 !.pending = <<>>,
                                 !.i = IF last THEN 1 ELSE frame.i + 1,
                                 !.key = IF last THEN None ELSE frame.key]
    /\ UNCHANGED <<history, now, buf, size, assert_failed, call, events,
                   geometry>>

\* the systems of PreUpdate have run
EndMain ==
    /\ frame.stage = "PreUpdate"
    /\ main_schedule_done(frame)
    /\ frame' = [frame EXCEPT !.stage = "PostUpdate"]
    /\ UNCHANGED <<history, now, buf, size, text, es, scratch, assert_failed,
                   call, events, geometry>>

\* the text system of the frame lays the buffers out from the Text
FrameTextSystem ==
    /\ frame.stage = "PostUpdate"
    /\ buf' = update_buffer(buf, text)
    /\ size' = [e \in Entities |->
                   IF e \in Editable THEN TextBounds(e) ELSE size[e]]
    /\ frame' = [frame EXCEPT !.stage = "ExtractSchedule"]
    /\ UNCHANGED <<history, now, text, es, scratch, assert_failed, call,
                   events, geometry>>

\* extract_selection and extract_cursor read the EditorState and the
\* CosmicBuffer of every editable entity; the next frame begins
Extract ==
    /\ frame.stage = "ExtractSchedule"
    /\ frame' = [frame EXCEPT !.stage = "PreUpdate",
                              !.observed = Some(Queried(es, buf))]
    /\ UNCHANGED <<history, now, buf, size, text, es, scratch, assert_failed,
                   call, events, geometry>>

NextFrame ==
    \/ FrameClick \/ KeyEvent \/ SessionOpen \/ SessionAct \/ SessionCommit
    \/ EndMain \/ FrameTextSystem \/ Extract

SpecFrame == Init /\ [][NextFrame]_vars

-----------------------------------------------------------------------------
(* Glyph geometry on its own: a layout run of line 1 and a cursor or       *)
(* selection bounds are drawn, and cursor_position or highlight_selection  *)
(* answers                                                                 *)

\* the grapheme clusters of a glyph and its width: one byte, one grapheme
\* of two bytes, two graphemes of one byte (a ligature), and a narrow
\* ligature whose half width is no whole pixel
GlyphShapes == {[g |-> <<1>>, w |-> 10], [g |-> <<2>>, w |-> 10],
                [g |-> <<1, 1>>, w |-> 10], [g |-> <<1, 1>>, w |-> 5]}

Perms(n) == {p \in [1..n -> 1..n] : \A a, b \in 1..n : a # b => p[a] # p[b]}

\* the run of the glyphs shapes (in byte order) shown in the visual order
\* perm, packed from x = x0, the k-th shown glyph right-to-left iff rtls[k]
RunOf(shapes, perm, rtls, rtl, x0) ==
    LET n == Len(shapes)
        start(j) == SumSeq([i \in 1..(j - 1) |-> SumSeq(shapes[i].g)])
        x(k) == x0 + SumSeq([i \in 1..(k - 1) |-> shapes[perm[i]].w])
    IN  LayoutRun(1, LineHeight, rtl,
                  [k \in 1..n |-> Glyph(start(perm[k]), shapes[perm[k]].g,
                                        x(k), shapes[perm[k]].w, rtls[k])])

\* runs for cursor_position: every direction of every glyph
CursorRuns ==
    UNION {{RunOf(shapes, perm, rtls, FALSE, 0) :
               shapes \in [1..n -> GlyphShapes], perm \in Perms(n),
               rtls \in [1..n -> BOOLEAN]} : n \in 0..MaxGlyphs}

\* where the first shown glyph of a run starts: at the left edge, or moved
\* right by the alignment of the line
RunOrigins == {0, 20}

\* runs for highlight_selection: both directions of the paragraph
SelectionRuns ==
    UNION {{RunOf(shapes, perm, [k \in 1..n |-> rtl], rtl, x0) :
               shapes \in [1..n -> GlyphShapes], perm \in Perms(n),
               rtl \in BOOLEAN, x0 \in RunOrigins} : n \in 0..MaxGlyphs}

Cursors == {Cursor(l, i) : l \in 0..2, i \in 0..MaxIndex}

\* Editor::selection_bounds gives start <= end
SelectionBounds ==
    {None} \cup {Some(<<ab[1], ab[2]>>) :
                     ab \in {cc \in Cursors \X Cursors :
                                cc[1] = cc[2] \/ CursorLess(cc[1], cc[2])}}

BufferWidths == {None, Some(40)}

\* the layout of line 1 made of the glyphs shapes, left to right, in one
\* run, or wrapped after its k-th glyph into two runs one below the other
LineRuns(shapes, k) ==
    LET n == Len(shapes)
        start(j) == SumSeq([i \in 1..(j - 1) |-> SumSeq(shapes[i].g)])
        glyph(j, first) ==
            Glyph(start(j), shapes[j].g,
                  SumSeq([i \in 1..(j - first) |-> shapes[first + i - 1].w]),
                  shapes[j].w, FALSE)
    IN  IF k >= n
        THEN <<LayoutRun(1, LineHeight, FALSE, [j \in 1..n |-> glyph(j, 1)])>>
        ELSE <<LayoutRun(1, LineHeight, FALSE, [j \in 1..k |-> glyph(j, 1)]),
               LayoutRun(1, 2 * LineHeight, FALSE,
                         [j \in 1..(n - k) |-> glyph(k + j, k + 1)])>>

WrappedLines ==
    UNION {{LineRuns(shapes, k) : shapes \in [1..n -> GlyphShapes],
                                  k \in 1..Max(1, n)} : n \in 0..MaxGlyphs}

\* the cursor of an EditorState: unset, or one of Cursors
EditorCursors == {None} \cup {Some(c) : c \in Cursors}

InitGeometry ==
    /\ history = ClickHistory_new
    /\ now = 0
    /\ buf = InitBuf
    /\ size = [e \in Entities |-> TextBounds(e)]
    /\ text = InitText
    /\ es = [e \in Editable |-> EditorState_default]
    /\ scratch = <<>>
    /\ assert_failed = FALSE
    /\ call = Call("startup", "", "", "", NoSessions)
    /\ events = 0
    /\ frame = Frame_new
    /\ \/ \E run \in CursorRuns, cursor \in Cursors :
              geometry = [Geometry_none EXCEPT !.run = run,
                             !.ask = "cursor_position", !.cursor = cursor]
       \/ \E run \in SelectionRuns, bounds \in SelectionBounds,
             width \in BufferWidths :
              geometry = [Geometry_none EXCEPT !.run = run,
                             !.ask = "highlight_selection",
                             !.selection_bounds = bounds,
                             !.buffer_width = width]
       \/ \E runs \in WrappedLines, editor_cursor \in EditorCursors :
              geometry = [Geometry_none EXCEPT !.runs = runs,
                             !.ask = "extract_cursor",
                             !.editor_cursor = editor_cursor]

CursorPosition ==
    /\ geometry.ask = "cursor_position" /\ ~geometry.done
    /\ geometry' = [geometry EXCEPT !.done = TRUE,
                       !.answer = cursor_position(geometry.cursor, geometry.run)]
    /\ UNCHANGED <<history, now, buf, size, text, es, scratch, assert_failed,
                   call, events, frame>>

HighlightSelection ==
    /\ geometry.ask = "highlight_selection" /\ ~geometry.done
    /\ geometry' = [geometry EXCEPT !.done = TRUE,
                       !.answer = highlight_selection(geometry.selection_bounds,
                                      geometry.buffer_width, geometry.run)]
    /\ UNCHANGED <<history, now, buf, size, text, es, scratch, assert_failed,
                   call, events, frame>>

ExtractCursor ==
    /\ geometry.ask = "extract_cursor" /\ ~geometry.done
    /\ geometry' = [geometry EXCEPT !.done = TRUE,
                       !.answer = extract_cursor(geometry.editor_cursor,
                                                 geometry.runs)]
    /\ UNCHANGED <<history, now, buf, size, text, es, scratch, assert_failed,
                   call, events, frame>>

NextGeometry == CursorPosition \/ HighlightSelection \/ ExtractCursor

SpecGeometry == InitGeometry /\ [][NextGeometry]_vars

-----------------------------------------------------------------------------
(* handle_click on its own: sequences of up to MaxClicks calls, long       *)
(* enough for a click after a triple click                                 *)

ClickCall ==
    /\ Running
    /\ events < MaxClicks
    /\ events' = events + 1
    /\ \E pressed \in BOOLEAN,
          window \in {<<>>} \cup {Primary(pointer) : pointer \in Pointers} :
           IF pressed /\ IsSome(hit(buf, window))
           THEN \E dt \in Deltas : handle_click(pressed, window, now + dt)
           ELSE handle_click(pressed, window, now)
    /\ UNCHANGED <<size, frame, geometry>>

SpecClicks == Init /\ [][ClickCall]_vars

-----------------------------------------------------------------------------
(* Properties                                                              *)

\* two entries are close in space and in time, both bounds inclusive
Near(a, b) ==
    /\ (a.position.x - b.position.x) * (a.position.x - b.position.x)
         + (a.position.y - b.position.y) * (a.position.y - b.position.y)
         <= MAX_DISTANCE * MAX_DISTANCE
    /\ a.time - b.time <= MAX_INTERVAL

\* C1: clicked(n) is true exactly when the history holds at least n
\* entries and every adjacent pair among the n most recent is within 2.0
\* pixels and 500 ms of each other (both inclusive); two clicks 5 pixels
\* apart within 100 ms, and two clicks at one point 600 ms apart, are not a
\* double click.
C1_ClickedIffNear ==
    /\ \A n \in 0..(MAX_ENTRIES + 1) :
           clicked(history, n) <=>
               /\ Len(history) >= n
               /\ \A i \in 1..(n - 1) : Near(history[i], history[i + 1])
    /\ ~clicked(<<ClickHistoryEntry(Vec2(5, 0), 100),
                  ClickHistoryEntry(Vec2(0, 0), 0)>>, 2)
    /\ ~clicked(<<ClickHistoryEntry(Vec2(0, 0), 600),
                  ClickHistoryEntry(Vec2(0, 0), 0)>>, 2)

\* a full history whose two newest entries are exactly 2 pixels and 500 ms
\* apart (a double click) and whose third is 5 pixels from the second
C1_Witness ==
    /\ Len(history) = MAX_ENTRIES
    /\ history[1].position = Vec2(3, 1) /\ history[2].position = Vec2(1, 1)
    /\ history[1].time - history[2].time = MAX_INTERVAL
    /\ history[3].position = Vec2(6, 1)
    /\ history[2].time - history[3].time = 100
    /\ clicked(history, 2) /\ ~clicked(history, 3)

\* C3: the history never holds more than 4 entries, and every add_entry
\* puts the new entry at the front of the up to 3 most recent entries held
\* before, dropping the oldest of a full history.
C3_BoundedMostRecentFirst ==
    /\ [](Len(history) <= MAX_ENTRIES)
    /\ [][\E position \in Positions, dt \in Deltas :
              history' = since_oldest(
                  <<ClickHistoryEntry(position, now + dt)>>
                      \o SubSeq(history, 1,
                                Min(Len(history), MAX_ENTRIES - 1)))]_vars

\* a fifth add_entry has acted on a full history
C3_Witness ==
    /\ events = MAX_ENTRIES + 1
    /\ Len(history) = MAX_ENTRIES
    /\ history[1].position = Vec2(6, 1)
    /\ \A i \in 2..4 : history[i].position = Vec2(1, 1)

\* the name of the action for an n-fold click
ActionFor(n) == CASE n = 3 -> "TripleClick" [] n = 2 -> "DoubleClick"
                  [] n = 1 -> "Click"

\* the selection an n-fold click at cursor c leaves
SelectionFor(n, c) == CASE n = 3 -> SelectionLine(c) [] n = 2 -> SelectionWord(c)
                        [] n = 1 -> SelectionNone

\* C2: every left click that hits an editable entity is recorded at the
\* front of the history and then dispatched to that entity's editor, and to
\* no other, as the one action for the largest n in {3, 2, 1} for which
\* clicked(n) holds of the history with the click in it.
C2_DispatchLargestN ==
    [][\A pointer \in Pointers, dt \in Deltas :
          LET h == hit(buf, Primary(pointer))
          IN  (/\ events' = events + 1
               /\ call'.system = "handle_click"
               /\ IsSome(h)
               /\ Unwrap(h).entity \in Editable
               /\ handle_click(TRUE, Primary(pointer), now + dt))
              =>
              LET e == Unwrap(h).entity
                  position == Unwrap(h).position
                  ns == {n \in {1, 2, 3} : clicked(history', n)}
                  c == Unwrap(Buffer_hit(buf[e], position.x, position.y))
              IN  /\ history'[1].position = position
                  /\ ns # {}
                  /\ call'.exit = "done" /\ call'.entity = e
                  /\ call'.action = ActionFor(SetMax(ns))
                  /\ es'[e].cursor = Some(c)
                  /\ es'[e].selection = SelectionFor(SetMax(ns), c)
                  /\ \A o \in Editable \ {e} : es'[o] = es[o]]_vars

\* a third click near the two before it has been dispatched as a triple click
C2_Witness ==
    /\ call.system = "handle_click" /\ call.exit = "done"
    /\ call.entity = "E1" /\ call.action = "TripleClick"
    /\ Len(history) = 3
    /\ es["E1"].selection.kind = "Line"

\* C4: right after add_entry, clicked(1) holds, so handle_click never takes
\* its unreachable!() branch.
C4_SingleClickAlways ==
    (call.system = "handle_click" /\ call.exit \in {"done", "no_editor_state"})
        => /\ clicked(history, 1)
           /\ click_action(history) # "unreachable"
           /\ call.action # "unreachable"

\* a click far from the one before it has been dispatched as a single click
C4_Witness ==
    /\ call.system = "handle_click" /\ call.exit = "done"
    /\ call.action = "Click"
    /\ Len(history) = 2
    /\ ~Near(history[1], history[2])

MotionKeys == {"ArrowDown", "ArrowLeft", "ArrowRight", "ArrowUp", "End", "Home",
               "PageDown", "PageUp"}

\* C5: a session that follows a committed session of the same entity
\* starts with exactly the cursor and the selection that were committed,
\* in particular after sessions of Motion actions only.
C5_ResumeRoundTrip ==
    [][\A e \in Editable :
          (IsSome(call.sessions[e]) /\ IsSome(call'.sessions[e])
              /\ events' = events + 1)
          => /\ Unwrap(call'.sessions[e]).seeded.cursor
                    = Unwrap(call.sessions[e]).cursor
             /\ Unwrap(call'.sessions[e]).seeded.selection
                    = Unwrap(call.sessions[e]).selection]_vars

\* a session resumed a word selection and its cursor, and moved the cursor
C5_Witness ==
    /\ call.system = "keyboard" /\ call.action \in MotionKeys
    /\ IsSome(call.sessions["E1"])
    /\ Unwrap(call.sessions["E1"]).seeded.selection.kind = "Word"
    /\ Unwrap(call.sessions["E1"]).seeded.cursor = Cursor(0, 1)
    /\ Unwrap(call.sessions["E1"]).cursor # Cursor(0, 1)
    /\ events = 3

\* C6: when a session ends, the EditorState holds the cursor, the selection
\* and the selection bounds of the session's editor.
C6_CommitOnSessionEnd ==
    \A e \in Editable :
        IsSome(call.sessions[e]) =>
            /\ es[e].cursor = Some(Unwrap(call.sessions[e]).cursor)
            /\ es[e].selection = Unwrap(call.sessions[e]).selection
            /\ es[e].selection_bounds = Unwrap(call.sessions[e]).selection_bounds

\* a session that ended with a selection and its bounds
C6_Witness ==
    /\ IsSome(call.sessions["E1"])
    /\ Unwrap(call.sessions["E1"]).selection.kind = "Word"
    /\ IsSome(Unwrap(call.sessions["E1"]).selection_bounds)
    /\ call.system = "keyboard"

ValidCursor(b, c) == c.line < LineCount(b) /\ c.index <= LineLen(b, c.line)

\* the cursor, the selection's cursor and both selection bounds of the
\* EditorState s name a line of the buffer b and a byte offset not past
\* the end of that line
Consistent(s, b) ==
    /\ IsSome(s.cursor) => ValidCursor(b, Unwrap(s.cursor))
    /\ s.selection.kind # "None" => ValidCursor(b, s.selection.at)
    /\ IsSome(s.selection_bounds)
           => /\ ValidCursor(b, Unwrap(s.selection_bounds)[1])
              /\ ValidCursor(b, Unwrap(s.selection_bounds)[2])

\* a click or a pressed key has been handled and its sessions committed
Committing(e) ==
    /\ events' = events + 1
    /\ call'.exit = "done"
    /\ IsSome(call'.sessions[e])

\* C7: after every committed edit batch, whatever clicks and key presses
\* came before, the EditorState of the entity of the batch is consistent
\* with its buffer: the cursor, the selection's cursor and both selection
\* bounds name a line of the buffer and a byte offset not past its end.
C7_StateConsistentWithBuffer ==
    [][\A e \in Editable : Committing(e) => Consistent(es'[e], buf'[e])]_vars

\* C7, for sessions that begin with a consistent EditorState over a buffer
\* that has been laid out: a committed batch leaves it consistent.
C7_ConsistencyPreserved ==
    [][\A e \in Editable :
           (Committing(e) /\ LineCount(buf[e]) > 0
                /\ Consistent(es[e], buf[e]))
               => Consistent(es'[e], buf'[e])]_vars

\* C9 as claimed: a call of handle_click either records, applies and
\* commits, or leaves the history, the buffers and the EditorStates alone.
C9_AllOrNothing ==
    [][(call'.system = "handle_click" /\ events' = events + 1)
          => \/ /\ call'.exit = "done"
                /\ history' # history
                /\ IsSome(call'.sessions[call'.entity])
             \/ UNCHANGED <<history, buf, es>>]_vars

\* the section that takes byte i (1-based) of a line with these tags: that
\* of the span the byte is in, else of the next span, else of the last span,
\* else section 0
Owner(attrs, i) ==
    LET after == {j \in i..Len(attrs) : attrs[j] # NoTag}
        before == {j \in 1..(i - 1) : attrs[j] # NoTag}
    IN  IF after # {} THEN attrs[SetMin(after)]
        ELSE IF before # {} THEN attrs[SetMax(before)]
        ELSE 0

RECURSIVE Owned(_, _, _)
\* the bytes of the line from the i-th on that section k takes, in order
Owned(line, k, i) ==
    IF i > Len(line.text) THEN <<>>
    ELSE (IF Owner(line.attrs, i) = k THEN <<line.text[i]>> ELSE <<>>)
             \o Owned(line, k, i + 1)

RECURSIVE OwnedSections(_, _)
\* the texts of the sections from k on that take a byte, in section order
OwnedSections(line, k) ==
    IF k > 2 THEN <<>>
    ELSE (IF \E i \in 1..Len(line.text) : Owner(line.attrs, i) = k
          THEN <<Owned(line, k, 1)>> ELSE <<>>)
             \o OwnedSections(line, k + 1)

\* C10: reconciliation gives every byte of a line to exactly one section:
\* a byte of a span to the span's section, an unstyled gap before a span to
\* the section of that span, an unstyled gap at the end of the line to the
\* section of the span before it; the sections that take no byte are
\* removed.  Of the 21-byte line with spans [2,7) of section 1 and [9,12)
\* of section 2, bytes [0,7) go to section 1 and bytes [7,21) to section 2.
C10_EveryByteToOneSection ==
    /\ reconcile_line(<<>>, ExampleLine)
           = (1 :> Slice(Alphabet, 0, 7)) @@ (2 :> Slice(Alphabet, 7, 21))
    /\ [][(/\ call'.system = "keyboard" /\ call'.exit = "done"
           /\ events' = events + 1
           /\ scratch = <<>>
           /\ Len(text["E1"]) = 3
           /\ Len(buf'["E1"]) = 1
           /\ buf'["E1"][1].text # <<>>)
          => /\ text'["E1"] = OwnedSections(buf'["E1"][1], 0)
             /\ scratch' = <<>>]_vars

\* the example line has been reconciled: section 0 is gone, bytes [0,7) and
\* [7,21) are what is left of sections 1 and 2
C10_Witness ==
    /\ call.system = "keyboard" /\ call.exit = "done"
    /\ events = 1
    /\ buf["E1"] = <<ExampleLine>>
    /\ text["E1"] = <<Slice(Alphabet, 0, 7), Slice(Alphabet, 7, 21)>>

\* the EditorState a whole key event leaves: every action of the key, in
\* order, on the editor resumed from the EditorState s over the buffer b
WholeEvent(key, s, b, rows) ==
    with_editor_mut(s, apply_actions(State(TempEditor_new(s, b), b),
                                     key_actions(key), rows))

\* C8: what extract_selection and extract_cursor read of an entity is the
\* EditorState as a session committed it, with every action of the event
\* applied: when the last event handled was a pressed key, it is the state
\* the whole event leaves, never that after some of its actions.  For a
\* Character key on an entity whose cursor was unset, the cursor read is
\* behind all the characters and the first line read begins with them.
C8_ExtractSeesCommitted ==
    [][(frame.stage = "ExtractSchedule" /\ frame'.stage = "PreUpdate"
            /\ IsSome(frame.event))
          => LET event == Unwrap(frame.event)
                 read == Unwrap(frame'.observed)
             IN  \A e \in Editable :
                     /\ read[e].es = WholeEvent(event.key, event.was[e].es,
                                                event.was[e].buf, PageRows(e))
                     /\ (/\ event.key.kind = "Character"
                         /\ ~IsSome(event.was[e].es.cursor))
                            => /\ read[e].es.cursor =
                                      Some(Cursor(0, Len(event.key.chars)))
                               /\ read[e].buf[1].text =
                                      event.key.chars
                                          \o event.was[e].buf[1].text]_vars

\* extraction has read E1 with both characters of one Character key in the
\* buffer and the cursor behind them
C8_Witness ==
    /\ IsSome(frame.observed) /\ IsSome(frame.event)
    /\ Unwrap(frame.event).key = Key("Character", <<"a", "b">>)
    /\ Unwrap(frame.observed)["E1"].es.cursor = Some(Cursor(0, 2))
    /\ Unwrap(frame.observed)["E1"].buf[1].text = <<"a", "b", "a", " ", "b">>
    /\ frame.stage = "PreUpdate"

\* the indices of the sections that received accumulated text
Received(sections, m) == {i \in 0..(Len(sections) - 1) : i \in DOMAIN m}

RECURSIVE ReceivedTexts(_, _, _)
\* the accumulated texts of the sections from i on that received one
ReceivedTexts(sections, m, i) ==
    IF i >= Len(sections) THEN <<>>
    ELSE (IF i \in DOMAIN m THEN <<m[i]>> ELSE <<>>)
             \o ReceivedTexts(sections, m, i + 1)

\* C11: when at least one section received accumulated text, the sections
\* left after reconciliation are exactly those that received text, in
\* their order, each holding its accumulated text: none of them is removed
\* or cleared, and every other section is removed.
C11_ReceivingSectionsRemain ==
    [][(/\ call'.system = "keyboard" /\ call'.exit = "done"
        /\ events' = events + 1)
       => LET m == reconcile_lines(scratch, buf'["E1"], 1)
          IN  Received(text["E1"], m) # {}
                  => text'["E1"] = ReceivedTexts(text["E1"], m, 0)]_vars

\* of three sections only the last received text, and it alone is left
C11_Witness ==
    /\ call.system = "keyboard" /\ call.exit = "done"
    /\ events = 1
    /\ buf["E1"] = <<Line(<<"a", "b">>, <<2, 2>>, <<>>)>>
    /\ text["E1"] = <<<<"a", "b">>>>
    /\ scratch = <<>>

\* C12: a text never loses its last section: every editable text keeps at
\* least one section through any sequence of key events, and when no
\* section received text, exactly one section is left and its text is
\* empty.
C12_LastSectionKept ==
    /\ [](\A e \in Editable : Len(text[e]) >= 1)
    /\ [][(/\ call'.system = "keyboard" /\ call'.exit = "done"
           /\ events' = events + 1)
          => LET m == reconcile_lines(scratch, buf'["E1"], 1)
             IN  Received(text["E1"], m) = {} => text'["E1"] = <<<<>>>>]_vars

\* no section received the text of a line whose spans name a section the
\* text does not have: one empty section is left
C12_Witness ==
    /\ call.system = "keyboard" /\ call.exit = "done"
    /\ events = 1
    /\ buf["E1"] = <<Line(<<"a", "b">>, <<2, 2>>, <<>>)>>
    /\ text["E1"] = <<<<>>>>
    /\ scratch = (2 :> <<"a", "b">>)

\* the line breaks in a text
Breaks(t) == {j \in 1..Len(t) : t[j] = "\n"}

\* reconciling the line alone appends its ending once, at the end of the
\* accumulated text of one section
EndingOnce(line) ==
    LET m == reconcile_line(<<>>, line)
    IN  line.ending # <<>>
            => \E k \in DOMAIN m :
                   /\ Breaks(m[k]) = {Len(m[k])}
                   /\ \A o \in DOMAIN m \ {k} : Breaks(m[o]) = {}

\* C13 as claimed: reconciliation appends the ending of every line of the
\* buffer, an empty line and a line without spans included, exactly once,
\* after the line's last byte, to the text of one section.
C13_EndingOncePerLine ==
    (call.system = "keyboard" /\ call.exit = "done")
        => \A e \in Editable :
               \A i \in 1..Len(buf[e]) : EndingOnce(buf[e][i])

\* the same of the lines that are not empty
C13_EndingOncePerNonEmptyLine ==
    (call.system = "keyboard" /\ call.exit = "done")
        => \A e \in Editable :
               \A i \in 1..Len(buf[e]) :
                   buf[e][i].text # <<>> => EndingOnce(buf[e][i])

\* cursor_position has answered about a cursor
CursorAnswered == geometry.ask = "cursor_position" /\ geometry.done

\* the byte ranges of the glyphs of the run do not overlap
DisjointGlyphs(run) ==
    \A a, b \in 1..Len(run.glyphs) :
        a # b => \/ GlyphEnd(run.glyphs[a]) <= run.glyphs[b].start
                 \/ GlyphEnd(run.glyphs[b]) <= run.glyphs[a].start

\* "AB": two glyphs of one byte and width 10, at x = 0 and x = 10
RunAB ==
    LayoutRun(1, LineHeight, FALSE,
              <<Glyph(0, <<1>>, 0, 10, FALSE), Glyph(1, <<1>>, 10, 10, FALSE)>>)

\* C14: cursor_position gives no result for a cursor of another line than
\* the run's; for a cursor at the start byte of a glyph it gives the top
\* of the line and the left edge of a left-to-right glyph, the right edge
\* of a right-to-left one; on "AB" the cursor at byte 1 is at x = 10 and
\* the cursor at byte 2 at x = 20.
C14_CaretAtGlyphStart ==
    /\ CursorAnswered
           => LET run == geometry.run
                  cursor == geometry.cursor
              IN  /\ cursor.line # run.line_i => geometry.answer = None
                  /\ \A i \in 1..Len(run.glyphs) :
                         (cursor.line = run.line_i
                              /\ cursor.index = run.glyphs[i].start)
                         => geometry.answer =
                                Some(<<IF run.glyphs[i].rtl
                                       THEN run.glyphs[i].x + run.glyphs[i].w
                                       ELSE run.glyphs[i].x,
                                       run.line_top>>)
    /\ cursor_position(Cursor(1, 1), RunAB) = Some(<<10, LineHeight>>)
    /\ cursor_position(Cursor(1, 2), RunAB) = Some(<<20, LineHeight>>)

\* the cursor at the start of the second shown glyph, a right-to-left one
C14_Witness ==
    /\ CursorAnswered
    /\ Len(geometry.run.glyphs) = 2
    /\ geometry.run.glyphs[2].rtl
    /\ geometry.cursor = Cursor(1, geometry.run.glyphs[2].start)
    /\ geometry.answer = Some(<<20, LineHeight>>)

\* the last glyph of the run, in the order the run shows them
LastGlyph(run) == run.glyphs[Len(run.glyphs)]

\* the edge of a glyph that text following it starts from
TrailingEdge(glyph) == IF glyph.rtl THEN glyph.x ELSE glyph.x + glyph.w

\* no glyph of the run starts at the cursor or has it inside
NoGlyphAt(cursor, run) ==
    \A i \in 1..Len(run.glyphs) :
        ~(run.glyphs[i].start <= cursor.index
              /\ cursor.index < GlyphEnd(run.glyphs[i]))

\* C15 as stated: a cursor on the run's line at or past the end of the last
\* glyph, and at no glyph of the run, is put at the trailing edge of the
\* last glyph.
C15_AtOrPastLastGlyph ==
    (/\ CursorAnswered
     /\ geometry.cursor.line = geometry.run.line_i
     /\ geometry.run.glyphs # <<>>
     /\ NoGlyphAt(geometry.cursor, geometry.run)
     /\ geometry.cursor.index >= GlyphEnd(LastGlyph(geometry.run)))
        => geometry.answer = Some(<<TrailingEdge(LastGlyph(geometry.run)),
                                    geometry.run.line_top>>)

\* C15: for a cursor on the run's line that no glyph starts at or contains,
\* cursor_position returns the trailing edge of the last glyph (x + w when
\* left-to-right, x when right-to-left) when the cursor is exactly at the
\* end byte of the last glyph and no result at any other offset, offsets
\* past the last glyph's end among them; when the run has no glyphs it
\* returns x = 0.
C15_AtLastGlyphEnd ==
    (CursorAnswered /\ geometry.cursor.line = geometry.run.line_i)
        => LET run == geometry.run
               cursor == geometry.cursor
           IN  /\ run.glyphs = <<>>
                      => geometry.answer = Some(<<0, run.line_top>>)
               /\ (run.glyphs # <<>> /\ NoGlyphAt(cursor, run))
                      => geometry.answer =
                             IF cursor.index = GlyphEnd(LastGlyph(run))
                             THEN Some(<<TrailingEdge(LastGlyph(run)),
                                         run.line_top>>)
                             ELSE None

\* the cursor at the end of a last glyph that is right-to-left
C15_Witness ==
    /\ CursorAnswered
    /\ Len(geometry.run.glyphs) = 2
    /\ LastGlyph(geometry.run).rtl
    /\ geometry.cursor = Cursor(1, GlyphEnd(LastGlyph(geometry.run)))
    /\ NoGlyphAt(geometry.cursor, geometry.run)
    /\ geometry.answer = Some(<<LastGlyph(geometry.run).x, LineHeight>>)

\* the grapheme clusters of the glyph that start before byte index
StartingBefore(glyph, index) ==
    {k \in 1..Len(glyph.graphemes) :
        glyph.start + SumSeq(SubSeq(glyph.graphemes, 1, k - 1)) < index}

\* C16: for a cursor strictly inside the byte range of a glyph the caret is
\* moved by glyph.w * (grapheme clusters of the glyph starting before the
\* cursor) / (grapheme clusters of the glyph), to the right of the left
\* edge of a left-to-right glyph and to the left of the right edge of a
\* right-to-left one, and cut to a whole pixel toward zero.
C16_CaretInsideGlyph ==
    CursorAnswered
        => LET run == geometry.run
               cursor == geometry.cursor
           IN  \A i \in 1..Len(run.glyphs) :
                   (/\ cursor.line = run.line_i
                    /\ run.glyphs[i].start < cursor.index
                    /\ cursor.index < GlyphEnd(run.glyphs[i]))
                   => LET g == run.glyphs[i]
                          total == Len(g.graphemes)
                          before == Cardinality(StartingBefore(g, cursor.index))
                      IN  geometry.answer =
                              Some(<<IF g.rtl
                                     THEN ((g.x + g.w) * total
                                               - g.w * before) \div total
                                     ELSE (g.x * total + g.w * before)
                                              \div total,
                                     run.line_top>>)

\* the cursor in the middle of a right-to-left ligature of width 5 shown
\* second: 10 + 5 - 2.5 cut to 12
C16_Witness ==
    /\ CursorAnswered
    /\ Len(geometry.run.glyphs) = 2
    /\ geometry.run.glyphs[2].rtl
    /\ geometry.run.glyphs[2].w = 5
    /\ geometry.run.glyphs[2].x = 10
    /\ geometry.run.glyphs[2].graphemes = <<1, 1>>
    /\ geometry.cursor = Cursor(1, geometry.run.glyphs[2].start + 1)
    /\ geometry.answer = Some(<<12, LineHeight>>)

\* highlight_selection has answered about bounds that hold the run's line
SelectionAnswered ==
    /\ geometry.ask = "highlight_selection" /\ geometry.done
    /\ IsSome(geometry.selection_bounds)
    /\ Unwrap(geometry.selection_bounds)[1].line <= geometry.run.line_i
    /\ geometry.run.line_i <= Unwrap(geometry.selection_bounds)[2].line

\* the graphemes of the run: <<glyph, grapheme of the glyph>>
Cells(run) ==
    UNION {{<<gi, k>> : k \in 1..Len(run.glyphs[gi].graphemes)} :
              gi \in 1..Len(run.glyphs)}

\* the order in which the run shows its graphemes
CellBefore(c, d) == c[1] < d[1] \/ (c[1] = d[1] /\ c[2] < d[2])

CellStart(run, c) ==
    run.glyphs[c[1]].start + SumSeq(SubSeq(run.glyphs[c[1]].graphemes, 1, c[2] - 1))

CellEnd(run, c) == CellStart(run, c) + run.glyphs[c[1]].graphemes[c[2]]

\* the pixels of a grapheme: an equal share of the glyph's width
CellLeft(run, c) ==
    LET g == run.glyphs[c[1]]
    IN  (g.x * Len(g.graphemes) + (c[2] - 1) * g.w) \div Len(g.graphemes)

CellRight(run, c) ==
    LET g == run.glyphs[c[1]]
    IN  (g.x * Len(g.graphemes) + c[2] * g.w) \div Len(g.graphemes)

\* the graphemes taken as selected: those not before the start on the start
\* line (from_end: also the one that ends where the selection starts) and
\* before the end on the end line
SelectedCells(run, start, end, from_end) ==
    {c \in Cells(run) :
        /\ \/ start.line # run.line_i
           \/ CellEnd(run, c) > start.index
           \/ (from_end /\ CellEnd(run, c) = start.index)
        /\ (end.line # run.line_i \/ CellStart(run, c) < end.index)}

\* the first unbroken block of the selected graphemes sel
FirstBlock(run, sel) ==
    {c \in sel : \A d \in Cells(run) : CellBefore(d, c) /\ d \notin sel
                     => \A f \in sel : ~CellBefore(f, d)}

\* the span of a set of graphemes
SpanOf(run, cells) ==
    LET min == CHOOSE v \in {CellLeft(run, c) : c \in cells} :
                   \A c \in cells : v <= CellLeft(run, c)
        max == CHOOSE v \in {CellRight(run, c) : c \in cells} :
                   \A c \in cells : v >= CellRight(run, c)
    IN  <<min, run.line_top, max - min>>

\* the answer for the selected graphemes sel of a run with glyphs, where no
\* extension to the edge of the run applies
SpanAnswer(run, sel) ==
    IF sel = {} THEN None ELSE Some(SpanOf(run, FirstBlock(run, sel)))

\* the last grapheme of the run is in the first block: the span is the one
\* the glyph loop ends with
BlockToEnd(run, sel) ==
    \A c \in Cells(run) : (\A d \in Cells(run) : ~CellBefore(c, d))
                              => c \in FirstBlock(run, sel)

\* the span is left as the graphemes give it
NotExtended(run, end, sel) == end.line = run.line_i \/ ~BlockToEnd(run, sel)

\* C17 as stated: a grapheme is selected iff (the run is not on the start
\* line or its end byte >= start.index) and (the run is not on the end line
\* or its start byte < end.index), and the span is that of the selected
\* graphemes.
C17_SelectedFromEndByte ==
    (SelectionAnswered /\ geometry.run.glyphs # <<>>)
        => LET run == geometry.run
               start == Unwrap(geometry.selection_bounds)[1]
               end == Unwrap(geometry.selection_bounds)[2]
               sel == SelectedCells(run, start, end, TRUE)
           IN  NotExtended(run, end, sel)
                   => geometry.answer = SpanAnswer(run, sel)

\* C17: a grapheme of a run inside the selected line range is selected iff
\* (the run is not on the start line or its end byte > start.index) and
\* (the run is not on the end line or its start byte < end.index); the span
\* returned is that of the first unbroken block of selected graphemes, none
\* when no grapheme is selected; every grapheme of a line strictly between
\* start and end is selected, and the whole single line "AB" gives the span
\* from 0 to 20.
C17_SelectedPastStartByte ==
    /\ (SelectionAnswered /\ geometry.run.glyphs # <<>>)
           => LET run == geometry.run
                  start == Unwrap(geometry.selection_bounds)[1]
                  end == Unwrap(geometry.selection_bounds)[2]
                  sel == SelectedCells(run, start, end, FALSE)
              IN  /\ NotExtended(run, end, sel)
                         => geometry.answer = SpanAnswer(run, sel)
                  /\ (start.line < run.line_i /\ run.line_i < end.line)
                         => sel = Cells(run) /\ IsSome(geometry.answer)
    /\ highlight_selection(Some(<<Cursor(1, 0), Cursor(1, 2)>>), Some(40), RunAB)
           = Some(<<0, LineHeight, 20>>)

\* a selection that starts at the end byte of the first of two glyphs and
\* ends on the same line: the span is the second glyph alone
C17_Witness ==
    /\ SelectionAnswered
    /\ Len(geometry.run.glyphs) = 2
    /\ GlyphEnd(geometry.run.glyphs[1]) = 1
    /\ geometry.run.glyphs[2].graphemes = <<1>>
    /\ geometry.selection_bounds = Some(<<Cursor(1, 1), Cursor(1, 2)>>)
    /\ geometry.answer = Some(<<10, LineHeight, 10>>)

\* highlight_selection has returned a span for a run before the end line,
\* with a buffer width set
SpanBeforeEndLine ==
    /\ SelectionAnswered
    /\ IsSome(geometry.answer)
    /\ geometry.run.line_i < Unwrap(geometry.selection_bounds)[2].line
    /\ IsSome(geometry.buffer_width)

\* the span reaches the edge of the run: the buffer width on the right of
\* a left-to-right run, 0 on the left of a right-to-left run
ReachesRunEdge ==
    LET span == Unwrap(geometry.answer)
    IN  IF geometry.run.rtl THEN span[1] = 0
        ELSE span[1] + span[3] = Unwrap(geometry.buffer_width)

\* C18: whenever highlight_selection returns a span for a run whose line is
\* before the end line of the selection, the span reaches the edge of the
\* run: its right end is the buffer width for a left-to-right run, its left
\* end 0 for a right-to-left run.
C18_ExtendedToRunEdge == SpanBeforeEndLine => ReachesRunEdge

\* C18, for the spans the glyph loop ends with: a span returned after the
\* last grapheme of the run reaches the edge of the run.
C18_ExtendedAfterLastGrapheme ==
    (/\ SpanBeforeEndLine
     /\ BlockToEnd(geometry.run,
                   SelectedCells(geometry.run,
                                 Unwrap(geometry.selection_bounds)[1],
                                 Unwrap(geometry.selection_bounds)[2], FALSE)))
        => ReachesRunEdge

\* highlight_selection has answered about a run with no glyphs
EmptyRunAnswered ==
    /\ geometry.ask = "highlight_selection" /\ geometry.done
    /\ geometry.run.glyphs = <<>>

\* the line of the run is strictly between the start and the end line
StrictlyBetween ==
    /\ IsSome(geometry.selection_bounds)
    /\ Unwrap(geometry.selection_bounds)[1].line < geometry.run.line_i
    /\ geometry.run.line_i < Unwrap(geometry.selection_bounds)[2].line

\* the whole buffer width at the top of the run
WholeWidth ==
    Some(<<0, geometry.run.line_top,
           IF IsSome(geometry.buffer_width) THEN Unwrap(geometry.buffer_width)
           ELSE 0>>)

\* C19: for a run with no glyphs highlight_selection returns the whole
\* buffer width (0, line_top, buffer_width) when the line of the run is
\* strictly between the start and the end line of the selection, and no
\* result when there are no bounds, when the line is outside
\* [start.line, end.line], or when the line is the start or the end line.
C19_EmptyRunOnlyBetween ==
    EmptyRunAnswered
        => geometry.answer = IF StrictlyBetween THEN WholeWidth ELSE None

\* C19, off the start line: the statement holds for every empty run whose
\* line is not the start line of a selection that ends on a later line.
C19_EmptyRunOffStartLine ==
    (/\ EmptyRunAnswered
     /\ ~(/\ IsSome(geometry.selection_bounds)
          /\ Unwrap(geometry.selection_bounds)[1].line = geometry.run.line_i
          /\ Unwrap(geometry.selection_bounds)[2].line > geometry.run.line_i))
        => geometry.answer = IF StrictlyBetween THEN WholeWidth ELSE None

\* the regions whose rectangle contains window position p, by their place
\* in the iteration order
Containing(p) ==
    {i \in 1..Len(Regions) :
        RectContains(Origin(Regions[i]), Size(Regions[i]), p)}

\* what region i answers for window position p over the buffers b
RegionAnswer(b, p, i) ==
    LET e == Regions[i]
        position == Vec2(p.x - (Origin(e).x - Size(e).x \div 2),
                         p.y - (Origin(e).y - Size(e).y \div 2))
        c == Buffer_hit(b[e], position.x, position.y)
    IN  IF IsSome(c)
        THEN Some(HitOutput(e, get_span_metadata(LineAt(b[e], Unwrap(c).line),
                                                 Unwrap(c).index),
                            position))
        ELSE None

\* the answer of the first region containing the pointer, as the only
\* candidate
FirstContainingOnly(b, pointer) ==
    IF ~IsSome(pointer) \/ Containing(Unwrap(pointer)) = {} THEN None
    ELSE RegionAnswer(b, Unwrap(pointer), SetMin(Containing(Unwrap(pointer))))

\* the answer of the first region that contains the pointer and resolves it
FirstResolving(b, pointer) ==
    LET resolving == IF IsSome(pointer)
                     THEN {i \in Containing(Unwrap(pointer)) :
                              IsSome(RegionAnswer(b, Unwrap(pointer), i))}
                     ELSE {}
    IN  IF resolving = {} THEN None
        ELSE RegionAnswer(b, Unwrap(pointer), SetMin(resolving))

\* C20: hit takes the first region in iteration order whose bounds contain
\* the pointer as the only candidate: it returns that region's entity with
\* the pointer translated to the region's top-left-origin space, and
\* nothing when no region contains the pointer or when that region reports
\* no offset; later regions are not tried.  Stated of the hit of every
\* call of handle_click with a pressed button.
C20_FirstContainingOnly ==
    [][\A pointer \in Pointers, dt \in Deltas :
          ~(/\ events' = events + 1
            /\ call'.system = "handle_click"
            /\ ~IsPanic(hit(buf, Primary(pointer)))
            /\ hit(buf, Primary(pointer)) # FirstContainingOnly(buf, pointer)
            /\ handle_click(TRUE, Primary(pointer), now + dt))]_vars

\* C20, with the regions that report no offset passed over: hit returns
\* the answer of the first region that contains the pointer and resolves it.
C20_FirstResolvingRegion ==
    [][\A pointer \in Pointers, dt \in Deltas :
          ~(/\ events' = events + 1
            /\ call'.system = "handle_click"
            /\ ~IsPanic(hit(buf, Primary(pointer)))
            /\ hit(buf, Primary(pointer)) # FirstResolving(buf, pointer)
            /\ handle_click(TRUE, Primary(pointer), now + dt))]_vars

\* how many of the most recent entries of h are each near the one before
\* it: the count of clicks of the sequence h ends with
RECURSIVE ChainFrom(_, _)
ChainFrom(h, i) ==
    IF i >= Len(h) THEN 1
    ELSE IF Near(h[i], h[i + 1]) THEN 1 + ChainFrom(h, i + 1)
    ELSE 1

Chain(h) == IF h = <<>> THEN 0 ELSE ChainFrom(h, 1)

\* a pressed click has been dispatched to an editor
ClickDispatched == call.system = "handle_click" /\ call.exit = "done"

\* C21: in a sequence of recorded clicks each within 2.0 pixels and 500 ms
\* of the one before it the first is dispatched as Click, the second as
\* DoubleClick and the third and every later one as TripleClick; a click
\* that exceeds either threshold against the one before it is dispatched
\* as Click and starts the count again.
C21_ClickCountSaturates ==
    [][(events' = events + 1 /\ ClickDispatched')
          => LET follows == /\ Len(history') >= 2
                            /\ Near(history'[1], history'[2])
             IN  /\ ~follows => call'.action = "Click"
                 /\ follows => call'.action =
                                   ActionFor(Min(3, 1 + Chain(history)))]_vars

\* a fourth click of a sequence has been dispatched as a triple click
C21_Witness ==
    /\ ClickDispatched /\ call.action = "TripleClick"
    /\ events = 4
    /\ Chain(history) = 4

\* C22: the history is ordered most recent first with strictly decreasing
\* times: a.time > b.time for every adjacent pair, so that the debug
\* assertion of clicked fails for no sequence of clicks, two clicks
\* recorded at the same instant of the clock included.
C22_StrictlyDecreasingTimes ==
    /\ \A i \in 1..(Len(history) - 1) : history[i].time > history[i + 1].time
    /\ ~assert_failed

\* C22, without strictness: no entry is older than the one after it.
C22_NeverIncreasingTimes ==
    \A i \in 1..(Len(history) - 1) : history[i].time >= history[i + 1].time

\* C23: a keyboard event whose state is Released changes nothing: the
\* buffer, the sections and the EditorState of every entity, an unset
\* cursor included, are after the event what they were before it.
C23_ReleasedChangesNothing ==
    [][(/\ events' = events + 1
        /\ call'.system = "keyboard" /\ call'.exit = "released")
          => UNCHANGED <<buf, text, es, scratch>>]_vars

\* a released key has been read while no cursor was set yet
C23_Witness ==
    /\ call.system = "keyboard" /\ call.exit = "released"
    /\ events = 1
    /\ \A e \in Editable : es[e].cursor = None

\* a pressed key has been applied by the keyboard system
KeyApplied == call.system = "keyboard" /\ call.exit = "done"

\* what one pressed key does to entity e: the state of its editor after
\* the key's actions, on the editor resumed from EditorState s over buffer b
KeyOn(e, key, s, b) ==
    apply_actions(State(TempEditor_new(s, b), b), key_actions(key), PageRows(e))

\* C24: each pressed key event is applied, in the order of the stream, once
\* to every entity that has a buffer, a text and an EditorState, whichever
\* entity was clicked last and whether or not its cursor was ever set, and
\* the sections of an entity are reconciled after each event, before the
\* next event is applied.
C24_EveryEntityEveryKey ==
    [][(events' = events + 1 /\ KeyApplied')
          => \E key \in Keys :
                 /\ key.kind = call'.action
                 /\ \A e \in Editable :
                        LET st == KeyOn(e, key, es[e], buf[e])
                        IN  /\ IsSome(call'.sessions[e])
                            /\ buf'[e] = st.b
                            /\ es'[e].cursor = Some(st.ed.cursor)
                            /\ es'[e].selection = st.ed.selection
                            /\ (key.kind = "Character" /\ es[e].cursor = None)
                                   => /\ LineAt(buf'[e], 0).text =
                                             key.chars \o LineAt(buf[e], 0).text
                                      /\ es'[e].cursor =
                                             Some(Cursor(0, Len(key.chars)))
                 /\ LET r1 == reconcile(text["E1"], scratch, buf'["E1"])
                        r2 == reconcile(text["E2"], r1.m, buf'["E2"])
                    IN  /\ text'["E1"] = r1.sections
                        /\ text'["E2"] = r2.sections
                        /\ scratch' = r2.m]_vars

\* the first event is the key "a", no entity was ever clicked, and both
\* entities have the "a" in their buffers and sections
C24_Witness ==
    /\ KeyApplied /\ call.action = "Character"
    /\ events = 1 /\ history = <<>>
    /\ LineAt(buf["E1"], 0).text = <<"a", "a", " ", "b">>
    /\ LineAt(buf["E2"], 0).text = <<"a", "a">>
    /\ text["E2"] = << <<"a", "a">> >>

\* the text of a buffer: every line followed by its ending, in line order
RECURSIVE BufferText(_)
BufferText(b) ==
    IF b = <<>> THEN <<>>
    ELSE Head(b).text \o Head(b).ending \o BufferText(Tail(b))

\* the section texts one after the other, in index order
RECURSIVE SectionsText(_)
SectionsText(sections) ==
    IF sections = <<>> THEN <<>>
    ELSE Head(sections) \o SectionsText(Tail(sections))

\* the style tags of the spans of a buffer, along the text
RECURSIVE SpanTags(_)
SpanTags(b) ==
    IF b = <<>> THEN <<>>
    ELSE [k \in 1..Len(spans(Head(b))) |-> spans(Head(b))[k].metadata]
             \o SpanTags(Tail(b))

\* the tags do not decrease along the text and each names one of n sections
TagsOrdered(b, n) ==
    LET tags == SpanTags(b)
    IN  /\ \A k \in 1..Len(tags) : tags[k] < n
        /\ \A k \in 1..(Len(tags) - 1) : tags[k] <= tags[k + 1]

\* C25: when the style tags of the spans of the buffer do not decrease
\* along the text and are smaller than the section count, then after
\* reconciliation the section texts, one after the other, are the text of
\* the buffer, for any buffer, those with empty lines and lines without
\* spans included.
C25_ContentPreserved ==
    [][(events' = events + 1 /\ KeyApplied')
          => \A e \in Editable :
                 TagsOrdered(buf'[e], Len(text[e]))
                     => SectionsText(text'[e]) = BufferText(buf'[e])]_vars

\* every line of the buffer has a span
EveryLineStyled(b) == \A i \in 1..Len(b) : spans(b[i]) # <<>>

\* C25, for buffers whose every line has a span: the section texts, one
\* after the other, are the text of the buffer.
C25_ContentPreservedStyledLines ==
    [][(events' = events + 1 /\ KeyApplied')
          => \A e \in Editable :
                 (TagsOrdered(buf'[e], Len(text[e])) /\ EveryLineStyled(buf'[e]))
                     => SectionsText(text'[e]) = BufferText(buf'[e])]_vars

\* C26: at the end of the reconciliation of each entity the scratch map of
\* accumulated texts is empty (the deletion list is drained by its loop),
\* so that no text accumulated for one entity or key event reaches the
\* sections of another entity or a later event, also when the style tag of
\* a span is not smaller than the section count.
C26_ScratchEmptyAfterReconcile == KeyApplied => scratch = <<>>

\* every style tag of the buffer names one of n sections
TagsInRange(b, n) == \A k \in 1..Len(SpanTags(b)) : SpanTags(b)[k] < n

\* C26, for tags that name a section: a key event that starts with an empty
\* scratch map and finds only tags smaller than the section count of their
\* entity ends with an empty scratch map.
C26_ScratchEmptyWhenTagsInRange ==
    [][(/\ events' = events + 1 /\ KeyApplied'
        /\ scratch = <<>>
        /\ \A e \in Editable : TagsInRange(buf'[e], Len(text[e])))
          => scratch' = <<>>]_vars

\* extract_cursor has run for an entity whose cursor is set and valid for
\* the line the runs lay out
CaretsExtracted ==
    /\ geometry.ask = "extract_cursor" /\ geometry.done
    /\ IsSome(geometry.editor_cursor)
    /\ Unwrap(geometry.editor_cursor).line = 1
    /\ Unwrap(geometry.editor_cursor).index
           <= SumSeq([r \in 1..Len(geometry.runs) |->
                         SumSeq([j \in 1..Len(geometry.runs[r].glyphs) |->
                                    SumSeq(geometry.runs[r].glyphs[j].graphemes)])])

\* C27: for an entity with a committed cursor that is valid for its buffer
\* exactly one of the layout runs yields a caret position, so that exactly
\* one caret rectangle is emitted, also when the line of the cursor is
\* wrapped into several runs and the cursor is at the byte offset where one
\* run ends and the next begins.
C27_ExactlyOneCaret == CaretsExtracted => Len(geometry.answer) = 1

\* C27, away from a wrap: one caret for a line laid out as one run, and for
\* a cursor that is not at the byte offset where the first run ends.
C27_OneCaretAwayFromWrap ==
    (/\ CaretsExtracted
     /\ \/ Len(geometry.runs) = 1
        \/ Unwrap(geometry.editor_cursor).index
               # GlyphEnd(LastGlyph(geometry.runs[1])))
        => Len(geometry.answer) = 1

\* the keys of the model that the match of the keyboard system maps to no
\* editor action
UnmappedKinds == {k.kind : k \in {key \in Keys : key_actions(key) = <<>>}}

\* a pressed key without an editor action has been handled
UnmappedKeyApplied == KeyApplied /\ call.action \in UnmappedKinds

\* C28: a press of a key with no mapped editing action (Control, Shift,
\* Tab, or a key the match does not list) leaves the buffer and the
\* EditorState of every entity unchanged; an entity whose cursor was unset
\* still has an unset cursor.
C28_UnmappedKeyChangesNothing ==
    [][(events' = events + 1 /\ UnmappedKeyApplied')
          => UNCHANGED <<buf, es>>]_vars

\* C28, for what does stay: the buffers are unchanged, and so is the
\* EditorState of every entity whose cursor was set.
C28_UnmappedKeyKeepsSetState ==
    [][(events' = events + 1 /\ UnmappedKeyApplied')
          => /\ UNCHANGED buf
             /\ \A e \in Editable : IsSome(es[e].cursor) => es'[e] = es[e]]_vars

\* C29: an EditorState starts with the cursor unset, the selection None and
\* no selection bounds; once a session of the entity has been committed the
\* cursor is set, and no click or key event returns it to unset.
C29_CursorStaysSet ==
    /\ \A e \in Editable :
           es[e] = [cursor |-> None, selection |-> SelectionNone,
                    selection_bounds |-> None]
    /\ [](\A e \in Editable :
              IsSome(call.sessions[e]) => IsSome(es[e].cursor))
    /\ [][\A e \in Editable :
              IsSome(es[e].cursor) => IsSome(es'[e].cursor)]_vars

\* the cursor of E2, set by a key press, has come through a click on E1
\* and a released key
C29_Witness ==
    /\ events = 3
    /\ call.system = "keyboard" /\ call.exit = "released"
    /\ Len(history) = 1
    /\ IsSome(es["E1"].cursor) /\ IsSome(es["E2"].cursor)

\* the call before was a click that was recorded in the history
ClickRecorded ==
    call.system = "handle_click" /\ call.exit \in {"done", "no_editor_state"}

\* C30: a click is dispatched to an entity as DoubleClick or TripleClick
\* only when the earlier clicks counted toward it hit the same entity: a
\* click recorded for another entity, or for a hit entity without editor
\* state, does not promote a later click.  Stated of the click recorded by
\* the call just before.
C30_PromotedBySameEntity ==
    [][(/\ events' = events + 1
        /\ ClickRecorded
        /\ ClickDispatched'
        /\ call'.action \in {"DoubleClick", "TripleClick"})
          => call.entity = call'.entity]_vars

=============================================================================
